---------------------------- MODULE Spec2Model ----------------------------
(***************************************************************************)
(* Receivables tracking backend (app/importers.py, app/metrics.py,         *)
(* app/settings.py, app/main.py): the relational store, the three import   *)
(* operations and the metric requests, as a state machine.                 *)
(*                                                                         *)
(* Conventions                                                             *)
(*   - a nullable column or an Optional value is a sequence of length at   *)
(*     most one: None == <<>>, a present value v is <<v>>;                 *)
(*   - a spreadsheet text cell is a string, or NaN (the float the reader   *)
(*     delivers for an empty cell); a cell of a column the file does not   *)
(*     have reads as None and behaves as "" under `value or ""`;           *)
(*   - dates are day numbers, amounts are whole currency units, rates are  *)
(*     whole percents; a money result that the code divides by 100 and by  *)
(*     365 is kept as its numerator over RateDen.                          *)
(***************************************************************************)
EXTENDS Integers, Sequences, FiniteSets, TLC

VARIABLES customers, invoices, payments, regions, settings, actions,
          req, resp, nops

vars == <<customers, invoices, payments, regions, settings, actions, req, resp, nops>>

store == <<customers, invoices, payments, regions, settings, actions>>

-----------------------------------------------------------------------------
(* Bounds *)

\* rows of an imported file
MaxBatchLen == 2

\* requests that write; one more request may read what they left
MaxOps == 2

-----------------------------------------------------------------------------
(* Optional values and Python truthiness *)

None == <<>>

Some(v) == <<v>>

Val(o) == o[1]

OrElse(o, d) == IF o = None THEN d ELSE o

Max(a, b) == IF a >= b THEN a ELSE b

RECURSIVE SumOver(_, _)
SumOver(f, S) ==
    IF S = {} THEN 0
    ELSE LET x == CHOOSE y \in S : TRUE IN f[x] + SumOver(f, S \ {x})

RECURSIVE SumSeq(_)
SumSeq(q) == IF q = <<>> THEN 0 ELSE Head(q) + SumSeq(Tail(q))

-----------------------------------------------------------------------------
(* Text cells *)

NaN == "<NaN>"

\* row.get(col) of a column the file does not have
NoCell == "<None>"

\* str(value): the float nan prints as "nan"
Str(cell) == IF cell = NaN THEN "nan" ELSE cell

\* `value or ""`: "" and None are falsy, the float nan is truthy
OrEmpty(cell) == IF cell = NoCell \/ cell = "" THEN "" ELSE cell

\* str.strip(), on the texts of the model
Strip(text) ==
    CASE text = " "    -> ""
      [] text = " N1 " -> "N1"
      [] OTHER         -> text

\* str.lower(), on the texts of the model
Lower(text) ==
    CASE text = "NAN" -> "nan"
      [] text = "NaN" -> "nan"
      [] OTHER        -> text

\* str(row.get(col) or "").strip()
CellText(cell) == Strip(Str(OrEmpty(cell)))

\* str(row.get(col) or "").strip() or None
CellTextOrNone(cell) == IF CellText(cell) = "" THEN None ELSE Some(CellText(cell))

_to_float(value) == value

_normalize_customer_no(value) ==
    LET text == Strip(Str(value)) IN
    IF value = NoCell THEN None
    ELSE IF text = "" THEN None
    ELSE IF Lower(text) = "nan" THEN None
    ELSE Some(text)

-----------------------------------------------------------------------------
(* Tables *)

Customer(name, region_id) == [name |-> name, region_id |-> region_id]

Invoice(customer_no, customer_name, invoice_date, due_date, vade, currency, total_amount, open_balance) ==
    [customer_no |-> customer_no, customer_name |-> customer_name,
     invoice_date |-> invoice_date, due_date |-> due_date, vade |-> vade,
     currency |-> currency, total_amount |-> total_amount,
     open_balance |-> open_balance]

Payment(customer_no, customer_name, invoice_date, payment_date, ar_invoice_no, value_date, delay_days, vade, applied_amount, payment_amount_try) ==
    [customer_no |-> customer_no, customer_name |-> customer_name,
     invoice_date |-> invoice_date, payment_date |-> payment_date,
     ar_invoice_no |-> ar_invoice_no, value_date |-> value_date,
     delay_days |-> delay_days, vade |-> vade,
     applied_amount |-> applied_amount,
     payment_amount_try |-> payment_amount_try]

\* a function extended or overwritten at one key
Put(f, k, v) == [x \in DOMAIN f \cup {k} |-> IF x = k THEN v ELSE f[x]]

-----------------------------------------------------------------------------
(* import_invoices_df *)

\* customers_cache / db.query(Customer) / db.add(customer): the customer of a
\* row, created on a cache and store miss, renamed on a cache hit only
ResolveCustomer(cust, cache, customer_no, customer_name) ==
    IF customer_no \notin cache
    THEN [cust  |-> IF customer_no \in DOMAIN cust THEN cust
                    ELSE Put(cust, customer_no,
                             Customer(OrElse(customer_name, Some(customer_no)), None)),
          cache |-> cache \cup {customer_no}]
    ELSE [cust  |-> IF customer_name # None /\ cust[customer_no].name # customer_name
                    THEN Put(cust, customer_no,
                             [cust[customer_no] EXCEPT !.name = customer_name])
                    ELSE cust,
          cache |-> cache]

\* one iteration of the loop over df.iterrows(); s is the session: the
\* customers and invoices as the session sees them, the customers cache, the
\* invoices added but not flushed, and the counter
InvoiceRowStep(s, row) ==
    LET invoice_no  == CellText(row.invoice_no)
        customer_no == _normalize_customer_no(row.customer_no)
    IN
    IF invoice_no = "" \/ customer_no = None THEN s
    ELSE
      LET customer_name == CellTextOrNone(row.customer_name)
          rc            == ResolveCustomer(s.cust, s.cache, Val(customer_no), customer_name)
          customer      == rc.cust[Val(customer_no)]
          invoice_date  == row.invoice_date
          due_date      == row.due_date
          vade_days     == IF invoice_date # None /\ due_date # None
                           THEN Some(Val(due_date) - Val(invoice_date))
                           ELSE None
          currency      == CellTextOrNone(row.currency)
          total_amount  == _to_float(row.total_amount)
          open_balance  == _to_float(row.open_balance)
          invoice       == Invoice(Val(customer_no),
                                   OrElse(customer_name, customer.name),
                                   invoice_date, due_date, vade_days, currency,
                                   total_amount, open_balance)
      IN
      \* db.query(Invoice) runs with autoflush off: it sees the stored
      \* invoices, not the ones this batch has added
      IF invoice_no \in DOMAIN s.inv
      THEN [s EXCEPT !.cust = rc.cust, !.cache = rc.cache,
                     !.inv = Put(s.inv, invoice_no, invoice)]
      ELSE [s EXCEPT !.cust = rc.cust, !.cache = rc.cache,
                     !.added = Append(s.added, [invoice_no |-> invoice_no, row |-> invoice]),
                     !.imported = s.imported + 1]

RECURSIVE InvoiceLoop(_, _)
InvoiceLoop(s, rows) ==
    IF rows = <<>> THEN s ELSE InvoiceLoop(InvoiceRowStep(s, Head(rows)), Tail(rows))

\* db.commit(): the INSERTs of the added invoices; two of them with one
\* primary key violate the key and the flush raises
CommitFails(added) ==
    \E i, j \in 1..Len(added) : i < j /\ added[i].invoice_no = added[j].invoice_no

RECURSIVE InsertAll(_, _)
InsertAll(inv, added) ==
    IF added = <<>> THEN inv
    ELSE InsertAll(Put(inv, Head(added).invoice_no, Head(added).row), Tail(added))

\* the whole call: the result and the store it leaves; an exception leaves the
\* transaction uncommitted and get_db closes the session, which rolls it back
import_invoices_df(cust, inv, df) ==
    LET s == InvoiceLoop([cust |-> cust, cache |-> {}, inv |-> inv,
                          added |-> <<>>, imported |-> 0], df)
    IN
    IF CommitFails(s.added)
    THEN [ok |-> FALSE, ret |-> 0, customers |-> cust, invoices |-> inv]
    ELSE [ok |-> TRUE, ret |-> s.imported, customers |-> s.cust,
          invoices |-> InsertAll(s.inv, s.added)]

-----------------------------------------------------------------------------
(* import_payments_df *)

LatestInvoiceCandidates_any_date(inv, name) ==
    {k \in DOMAIN inv : inv[k].customer_name = name}

\* db.query(Invoice).filter(Invoice.customer_name == name)
\*   .order_by(Invoice.invoice_date.desc()).first()
\* the rows the query can return first: one with the latest invoice_date, or
\* one without invoice_date (NULLs sort first or last by engine); the order
\* among equal dates is the engine's
LatestInvoiceCandidates(inv, name) ==
    LET named == {k \in DOMAIN inv : inv[k].customer_name = name}
        dated == {k \in named : inv[k].invoice_date # None}
    IN {k \in named :
           \/ inv[k].invoice_date = None
           \/ \A j \in dated : Val(inv[j].invoice_date) <= Val(inv[k].invoice_date)}

\* the names a query for the latest invoice can be asked for
InvoiceNames(inv) == {inv[k].customer_name : k \in DOMAIN inv}

\* one answer per name: what the engine returns to each of these queries
LatestInvoicePicks(inv) ==
    {f \in [InvoiceNames(inv) -> DOMAIN inv] :
        \A n \in InvoiceNames(inv) : f[n] \in LatestInvoiceCandidates(inv, n)}

PaymentRowStep(s, row, inv, pick) ==
    LET customer_no == _normalize_customer_no(row.customer_no) IN
    IF customer_no = None THEN s
    ELSE
      LET customer_name == CellTextOrNone(row.customer_name)
          rc            == ResolveCustomer(s.cust, s.cache, Val(customer_no), customer_name)
          customer      == rc.cust[Val(customer_no)]
          ar_invoice_no == CellTextOrNone(row.ar_invoice_no)
          payment_date  == row.payment_date
          invoice_date_pay == row.invoice_date
          \* pd.isna(value_date): fall back to the payment date
          value_date    == IF row.value_date = None THEN payment_date ELSE row.value_date
          delay_days    ==
              IF value_date # None /\ ar_invoice_no # None
                 /\ Val(ar_invoice_no) \in DOMAIN inv
                 /\ inv[Val(ar_invoice_no)].due_date # None
                 /\ Val(value_date) - Val(inv[Val(ar_invoice_no)].due_date) > 0
              THEN Val(value_date) - Val(inv[Val(ar_invoice_no)].due_date)
              ELSE 0
          vade_days_for_payment ==
              IF customer_name # None /\ customer_name \in DOMAIN pick
              THEN inv[pick[customer_name]].vade
              ELSE None
          applied_amount     == _to_float(row.applied_amount)
          payment_amount_try == _to_float(row.payment_amount_try)
          payment == Payment(Val(customer_no), OrElse(customer_name, customer.name),
                             invoice_date_pay, payment_date, ar_invoice_no,
                             value_date, delay_days, vade_days_for_payment,
                             applied_amount, payment_amount_try)
      IN [s EXCEPT !.cust = rc.cust, !.cache = rc.cache,
                   !.pay = Append(s.pay, payment),
                   !.imported = s.imported + 1]

RECURSIVE PaymentLoop(_, _, _, _)
PaymentLoop(s, rows, inv, pick) ==
    IF rows = <<>> THEN s
    ELSE PaymentLoop(PaymentRowStep(s, Head(rows), inv, pick), Tail(rows), inv, pick)

DeletePayments_skipped(pay) == pay

\* db.query(Payment).delete(): the table the loop starts from
DeletePayments(pay) == <<>>

import_payments_df(cust, inv, pay, df, pick) ==
    LET s == PaymentLoop([cust |-> cust, cache |-> {}, pay |-> DeletePayments(pay),
                          imported |-> 0], df, inv, pick)
    IN [ok |-> TRUE, ret |-> s.imported, customers |-> s.cust, payments |-> s.pay]

-----------------------------------------------------------------------------
(* import_customer_regions_df *)

\* regions is the table in id order: the id of a region is its position

RegionId(regs, name) == CHOOSE i \in 1..Len(regs) : regs[i] = name

\* db.query(Customer).filter(Customer.name == name).first(): the customers the
\* query can return first
CustomersNamed(cust, name) == {c \in DOMAIN cust : cust[c].name = Some(name)}

CustomerNames(cust) == {Val(cust[c].name) : c \in {d \in DOMAIN cust : cust[d].name # None}}

\* one answer per name: what the engine returns to each of these queries
CustomerByNamePicks(cust) ==
    {f \in [CustomerNames(cust) -> DOMAIN cust] :
        \A n \in CustomerNames(cust) : f[n] \in CustomersNamed(cust, n)}

RegionRowStep(s, row, columns, pickc) ==
    LET customer_no   == IF "Customer Number" \in columns
                         THEN _normalize_customer_no(row.customer_no) ELSE None
        customer_name == IF "Customer Name" \in columns
                         THEN CellText(row.customer_name) ELSE ""
        region_name   == CellText(row.region_name)
        found         == IF customer_no # None
                         THEN (IF Val(customer_no) \in DOMAIN s.cust
                               THEN customer_no ELSE None)
                         ELSE (IF customer_name \in DOMAIN pickc
                               THEN Some(pickc[customer_name]) ELSE None)
    IN
    IF customer_no = None /\ customer_name = "" THEN s
    ELSE IF region_name = "" THEN s
    ELSE IF found = None THEN s
    ELSE
      LET regs == IF \E i \in 1..Len(s.regs) : s.regs[i] = region_name
                  THEN s.regs ELSE Append(s.regs, region_name)
          rid  == RegionId(regs, region_name)
      IN IF s.cust[Val(found)].region_id # Some(rid)
         THEN [s EXCEPT !.regs = regs,
                        !.cust = Put(s.cust, Val(found),
                                     [s.cust[Val(found)] EXCEPT !.region_id = Some(rid)]),
                        !.updated = s.updated + 1]
         ELSE [s EXCEPT !.regs = regs]

RECURSIVE RegionLoop(_, _, _, _)
RegionLoop(s, rows, columns, pickc) ==
    IF rows = <<>> THEN s
    ELSE RegionLoop(RegionRowStep(s, Head(rows), columns, pickc), Tail(rows), columns, pickc)

import_customer_regions_df(cust, regs, df, pickc) ==
    IF "Region Name" \notin df.columns
       \/ ("Customer Number" \notin df.columns /\ "Customer Name" \notin df.columns)
    THEN [ok |-> TRUE, ret |-> 0, customers |-> cust, regions |-> regs]
    ELSE LET s == RegionLoop([cust |-> cust, regs |-> regs, updated |-> 0],
                             df.rows, df.columns, pickc)
         IN [ok |-> TRUE, ret |-> s.updated, customers |-> s.cust, regions |-> s.regs]

-----------------------------------------------------------------------------
(* settings.py *)

DefaultCostOfCash == 45

DefaultLateFeeRate == 36

get_cost_of_cash_annual(sett, default) ==
    IF "cost_of_cash_annual" \in DOMAIN sett THEN sett["cost_of_cash_annual"] ELSE default

set_cost_of_cash_annual(sett, value) == Put(sett, "cost_of_cash_annual", value)

get_late_fee_rate_annual(sett, default) ==
    IF "late_fee_rate_annual" \in DOMAIN sett THEN sett["late_fee_rate_annual"] ELSE default

set_late_fee_rate_annual_under_cost_key(sett, value) == Put(sett, "cost_of_cash_annual", value)

set_late_fee_rate_annual(sett, value) == Put(sett, "late_fee_rate_annual", value)

-----------------------------------------------------------------------------
(* metrics.py *)

\* (rate / 100.0) / 365.0: money results are numerators over this
RateDen == 100 * 365

calculate_late_loss_payment_without_vade(payment, cost_of_cash) ==
    IF payment.payment_date = None \/ payment.invoice_date = None \/ payment.vade = None
    THEN 0
    ELSE IF payment.applied_amount = None \/ Val(payment.applied_amount) = 0
    THEN 0
    ELSE LET expected_date == Val(payment.invoice_date)
             delay_days    == Val(payment.payment_date) - expected_date
         IN IF delay_days <= 0 THEN 0
            ELSE delay_days * Val(payment.applied_amount) * cost_of_cash

\* the loss of one payment, times RateDen
calculate_late_loss_payment(payment, cost_of_cash) ==
    IF payment.payment_date = None \/ payment.invoice_date = None \/ payment.vade = None
    THEN 0
    ELSE IF payment.applied_amount = None \/ Val(payment.applied_amount) = 0
    THEN 0
    ELSE LET expected_date == Val(payment.invoice_date) + Val(payment.vade)
             delay_days    == Val(payment.payment_date) - expected_date
         IN IF delay_days <= 0 THEN 0
            ELSE delay_days * Val(payment.applied_amount) * cost_of_cash

-----------------------------------------------------------------------------
(* risk_score.py.  Ratios and scores are exact fractions [n, d] in lowest
   terms with d > 0; the score returned is in hundredths, the two decimals
   round() keeps. *)

Abs(x) == IF x < 0 THEN -x ELSE x

RECURSIVE Gcd(_, _)
Gcd(a, b) == IF b = 0 THEN a ELSE Gcd(b, a % b)

\* the fraction n / d, d # 0
Rat(n, d) ==
    LET g == Gcd(Abs(n), Abs(d))
        s == IF d < 0 THEN -1 ELSE 1
    IN [n |-> (s * n) \div g, d |-> (s * d) \div g]

\* r * k / m for integers k >= 0, m > 0
RatScale(r, k, m) ==
    LET g1 == Gcd(Abs(r.n), m)
        g2 == Gcd(k, r.d)
    IN Rat((r.n \div g1) * (k \div g2), (r.d \div g2) * (m \div g1))

RatAdd(a, b) == Rat(a.n * b.d + b.n * a.d, a.d * b.d)

\* round(x * 100) of a fraction x >= 0, ties to even
RoundRat(x) ==
    LET q == x.n \div x.d
        r == x.n % x.d
    IN IF 2 * r < x.d THEN q
       ELSE IF 2 * r > x.d THEN q + 1
       ELSE IF q % 2 = 0 THEN q ELSE q + 1

clamp_without_ceiling(value) ==
    IF value.n <= 0 THEN Rat(0, 1) ELSE value

\* max(0, min(value, 100))
clamp(value) ==
    IF value.n >= 100 * value.d THEN Rat(100, 1)
    ELSE IF value.n <= 0 THEN Rat(0, 1)
    ELSE value

calculate_risk_score_saturating_at_90(overdue_ratio, over90_ratio, weighted_days, loss_ratio) ==
    LET score1 == clamp(RatScale(overdue_ratio, 100, 1))
        score2 == clamp(RatScale(over90_ratio, 100, 1))
        score3 == clamp(RatScale(weighted_days, 100, 90))
        score4 == clamp(RatScale(loss_ratio, 1000, 1))
        risk   == RatAdd(RatAdd(RatScale(score1, 35, 100), RatScale(score2, 30, 100)),
                         RatAdd(RatScale(score3, 20, 100), RatScale(score4, 15, 100)))
    IN RoundRat(RatScale(risk, 100, 1))

\* the risk score, in hundredths
calculate_risk_score(overdue_ratio, over90_ratio, weighted_days, loss_ratio) ==
    LET score1 == clamp(RatScale(overdue_ratio, 100, 1))
        score2 == clamp(RatScale(over90_ratio, 100, 1))
        score3 == clamp(RatScale(weighted_days, 100, 120))
        score4 == clamp(RatScale(loss_ratio, 1000, 1))
        risk   == RatAdd(RatAdd(RatScale(score1, 35, 100), RatScale(score2, 30, 100)),
                         RatAdd(RatScale(score3, 20, 100), RatScale(score4, 15, 100)))
    IN RoundRat(RatScale(risk, 100, 1))

-----------------------------------------------------------------------------
(* main.py: dashboard and _customer_metrics *)

\* `i.open_balance or 0`
Bal(i) == IF i.open_balance = None THEN 0 ELSE Val(i.open_balance)

IsOverdue(i, today) == i.due_date # None /\ Val(i.due_date) < today

IsOver90(i, today) == i.due_date # None /\ today - Val(i.due_date) > 90

\* `a / b if b else 0.0`
RatioOrZero(a, b) == IF b # 0 THEN Rat(a, b) ELSE Rat(0, 1)

\* the risk score from the sums of a scope; loss_30 is a numerator over RateDen
RiskOf(total_open, overdue, over90, weighted_days, loss_30) ==
    calculate_risk_score(RatioOrZero(overdue, total_open),
                         RatioOrZero(over90, overdue),
                         weighted_days,
                         IF total_open # 0 THEN Rat(loss_30, RateDen * total_open)
                         ELSE Rat(0, 1))

\* sum of ob * days over the overdue invoices among keys, days floored at 0
WeightedNum(inv, keys, today) ==
    SumOver([k \in keys |->
                IF IsOverdue(inv[k], today)
                THEN Bal(inv[k]) * Max(today - Val(inv[k].due_date), 0) ELSE 0], keys)

DashboardLateFeeTerm_any_balance(i, today, late_fee_rate) ==
    IF i.open_balance = None THEN 0
    ELSE IF i.due_date = None \/ Val(i.due_date) > today THEN 0
    ELSE Val(i.open_balance) * (today - Val(i.due_date)) * late_fee_rate

\* one iteration of the late-fee loop of dashboard, times RateDen
DashboardLateFeeTerm(i, today, late_fee_rate) ==
    IF i.open_balance = None \/ Val(i.open_balance) <= 0 THEN 0
    ELSE IF i.due_date = None \/ Val(i.due_date) >= today THEN 0
    ELSE IF today - Val(i.due_date) <= 0 THEN 0
    ELSE Val(i.open_balance) * (today - Val(i.due_date)) * late_fee_rate

\* one iteration of the late-fee loop of _customer_metrics, times RateDen
CustomerLateFeeTerm(i, today, late_fee_rate) ==
    IF ~(Bal(i) > 0) THEN 0
    ELSE IF i.due_date = None \/ Val(i.due_date) >= today THEN 0
    ELSE IF today - Val(i.due_date) <= 0 THEN 0
    ELSE Bal(i) * (today - Val(i.due_date)) * late_fee_rate

\* indices of the payments of the last 30 days
Last30(pay, today) ==
    {n \in 1..Len(pay) : pay[n].value_date # None /\ Val(pay[n].value_date) >= today - 30}

LossSum(pay, idx, cost_of_cash) ==
    SumOver([n \in idx |-> calculate_late_loss_payment(pay[n], cost_of_cash)], idx)

dashboard_result(inv, pay, sett, today) ==
    LET keys          == DOMAIN inv
        cost_of_cash  == get_cost_of_cash_annual(sett, DefaultCostOfCash)
        late_fee_rate == get_late_fee_rate_annual(sett, DefaultLateFeeRate)
        total_open    == SumOver([k \in keys |-> Bal(inv[k])], keys)
        overdue       == SumOver([k \in keys |-> IF IsOverdue(inv[k], today) THEN Bal(inv[k]) ELSE 0], keys)
        over90        == SumOver([k \in keys |-> IF IsOver90(inv[k], today) THEN Bal(inv[k]) ELSE 0], keys)
        loss_30       == LossSum(pay, Last30(pay, today), cost_of_cash)
        \* weighted_days = 0.0 in the dashboard
        weighted_days == Rat(0, 1)
    IN [total_open |-> total_open,
        overdue    |-> overdue,
        over90     |-> over90,
        loss_30d   |-> loss_30,
        risk_score |-> RiskOf(total_open, overdue, over90, weighted_days, loss_30),
        loss_30d_rows |-> Cardinality(Last30(pay, today)),
        total_late_loss |-> LossSum(pay, 1..Len(pay), cost_of_cash),
        total_late_loss_rows |-> Len(pay),
        cost_of_cash_annual |-> cost_of_cash,
        late_fee_rate_annual |-> late_fee_rate,
        late_fee_unpaid_total |->
            SumOver([k \in keys |-> DashboardLateFeeTerm(inv[k], today, late_fee_rate)], keys)]

\* the payments _customer_metrics, customer_late_payments and the export read:
\* by the stored name of the customer, by customer_no when there is none
PaymentsOfCustomer(cust, pay, customer_no) ==
    IF customer_no \in DOMAIN cust /\ cust[customer_no].name # None
    THEN {n \in 1..Len(pay) : pay[n].customer_name = cust[customer_no].name}
    ELSE {n \in 1..Len(pay) : pay[n].customer_no = customer_no}

_customer_metrics(cust, inv, pay, sett, customer_no, cost_of_cash, today) ==
    LET keys   == {k \in DOMAIN inv : inv[k].customer_no = customer_no}
        pidx   == PaymentsOfCustomer(cust, pay, customer_no)
        unpaid == {k \in keys : Bal(inv[k]) > 0}
        late_fee_rate == get_late_fee_rate_annual(sett, DefaultLateFeeRate)
        total_open    == SumOver([k \in keys |-> Bal(inv[k])], keys)
        overdue       == SumOver([k \in keys |-> IF IsOverdue(inv[k], today) THEN Bal(inv[k]) ELSE 0], keys)
        over90        == SumOver([k \in keys |-> IF IsOver90(inv[k], today) THEN Bal(inv[k]) ELSE 0], keys)
        weighted_days == RatioOrZero(WeightedNum(inv, keys, today), overdue)
        loss_30       == LossSum(pay, pidx \cap Last30(pay, today), cost_of_cash)
    IN [customer_no |-> customer_no,
        total_open |-> total_open,
        overdue    |-> overdue,
        over90     |-> over90,
        unpaid_invoice_count |-> Cardinality(unpaid),
        late_fee_unpaid |->
            SumOver([k \in unpaid |-> CustomerLateFeeTerm(inv[k], today, late_fee_rate)], unpaid),
        weighted_overdue_days |-> weighted_days,
        loss_30d |-> loss_30,
        risk_score |-> RiskOf(total_open, overdue, over90, weighted_days, loss_30),
        total_late_loss |-> LossSum(pay, pidx, cost_of_cash)]

-----------------------------------------------------------------------------
(* Requests: the inputs of the model *)

\* sequences over S of length at most n
RECURSIVE SeqsUpTo(_, _)
SeqsUpTo(S, n) ==
    IF n = 0 THEN {<<>>}
    ELSE LET shorter == SeqsUpTo(S, n - 1)
         IN shorter \cup {Append(q, x) : q \in {r \in shorter : Len(r) = n - 1}, x \in S}

InvRow(invoice_no, customer_no, customer_name, due_date, open_balance) ==
    [invoice_no |-> invoice_no, customer_no |-> customer_no,
     customer_name |-> customer_name, invoice_date |-> Some(0),
     due_date |-> due_date, currency |-> "TRY",
     total_amount |-> Some(1000), open_balance |-> open_balance]

\* two invoices of one customer, the first without a name
InvoiceRows ==
    {InvRow("I1", "C1", " ", Some(30), Some(1000)),
     InvRow("I2", "C1", " N1 ", Some(30), Some(1000))}

\* invoice rows that differ in their keys and names: a blank name, a padded
\* name, an empty name cell, an empty invoice-number cell, an empty
\* customer-number cell, a blank invoice number
ImportInvoiceRows ==
    {InvRow("I1", "C1", " ", Some(30), Some(1000)),
     InvRow("I2", "C1", " N1 ", Some(30), Some(1000)),
     InvRow("I2", "C1", NaN, Some(30), Some(1000)),
     InvRow(NaN, "C1", NaN, Some(30), Some(1000)),
     InvRow("I1", NaN, "N1", Some(30), Some(1000)),
     InvRow(" ", "C1", "N1", Some(30), Some(1000))}

PayRow(customer_no, customer_name, ar_invoice_no, value_date, payment_date, invoice_date, applied_amount) ==
    [customer_no |-> customer_no, customer_name |-> customer_name,
     ar_invoice_no |-> ar_invoice_no, value_date |-> value_date,
     payment_date |-> payment_date, invoice_date |-> invoice_date,
     applied_amount |-> applied_amount, payment_amount_try |-> applied_amount]

\* payment rows: paid late against the referenced invoice; no invoice
\* referenced and no value date; no customer number (empty, blank); a second
\* customer with the name of the first
PaymentRows ==
    {PayRow("C1", "N1", "I1", Some(40), Some(60), Some(0), Some(5000)),
     PayRow("C1", "N1", NaN, None, Some(60), Some(0), Some(5000)),
     PayRow(NaN, "N1", "I1", Some(40), Some(60), Some(0), Some(5000)),
     PayRow(" ", "N1", "I1", Some(40), Some(60), Some(0), Some(5000)),
     PayRow("C2", "N1", "I1", Some(40), Some(60), Some(0), Some(5000))}

\* the same, and a row without a name
ImportPaymentRows ==
    {PayRow("C1", "N1", "I1", Some(40), Some(60), Some(0), Some(5000)),
     PayRow("C1", "N1", NaN, None, Some(60), Some(0), Some(5000)),
     PayRow("C1", " ", "I1", Some(20), Some(60), Some(0), Some(5000)),
     PayRow(NaN, "N1", "I1", Some(40), Some(60), Some(0), Some(5000)),
     PayRow(" ", "N1", "I1", Some(40), Some(60), Some(0), Some(5000)),
     PayRow("C2", "N1", "I1", Some(40), Some(60), Some(0), Some(5000))}

RegRow(customer_no, customer_name, region_name) ==
    [customer_no |-> customer_no, customer_name |-> customer_name,
     region_name |-> region_name]

RegionRows == {RegRow("C1", "N1", "R1"), RegRow(NaN, "N1", "R2")}

RegionColumns ==
    {{"Customer Number", "Customer Name", "Region Name"},
     {"Customer Number", "Customer Name"}}

Rates == {10, 50}

Todays == {40, 130}

CustomerArgs == {"C1", "C2"}

-----------------------------------------------------------------------------
(* Requests that write *)

Init ==
    /\ customers = <<>>
    /\ invoices = <<>>
    /\ payments = <<>>
    /\ regions = <<>>
    /\ settings = <<>>
    /\ actions = <<>>
    /\ req = [op |-> "start"]
    /\ resp = [op |-> "start"]
    /\ nops = 0

\* POST /import/invoices
ImportInvoices(Rows) ==
    /\ nops < MaxOps
    /\ \E df \in SeqsUpTo(Rows, MaxBatchLen) :
          LET r == import_invoices_df(customers, invoices, df) IN
          /\ req' = [op |-> "import_invoices", df |-> df]
          /\ customers' = r.customers
          /\ invoices' = r.invoices
          /\ resp' = IF r.ok
                     THEN [op |-> "import_invoices", status |-> 200, rows |-> Len(df),
                           inserted_or_updated |-> r.ret]
                     ELSE [op |-> "import_invoices", status |-> 500]
    /\ nops' = nops + 1
    /\ UNCHANGED <<payments, regions, settings, actions>>

\* POST /import/payments
ImportPayments(Rows) ==
    /\ nops < MaxOps
    /\ \E pick \in LatestInvoicePicks(invoices) :
       \E df \in SeqsUpTo(Rows, MaxBatchLen) :
          LET r == import_payments_df(customers, invoices, payments, df, pick) IN
          /\ req' = [op |-> "import_payments", df |-> df]
          /\ customers' = r.customers
          /\ payments' = r.payments
          /\ resp' = [op |-> "import_payments", status |-> 200, rows |-> Len(df),
                      inserted |-> r.ret]
    /\ nops' = nops + 1
    /\ UNCHANGED <<invoices, regions, settings, actions>>

\* POST /import/customer-regions
ImportCustomerRegions(Rows) ==
    /\ nops < MaxOps
    /\ \E pickc \in CustomerByNamePicks(customers) :
       \E columns \in RegionColumns :
       \E rows \in SeqsUpTo(Rows, MaxBatchLen) :
          LET r == import_customer_regions_df(customers, regions,
                       [columns |-> columns, rows |-> rows], pickc) IN
          /\ req' = [op |-> "import_customer_regions", columns |-> columns, df |-> rows]
          /\ customers' = r.customers
          /\ regions' = r.regions
          /\ resp' = [op |-> "import_customer_regions", status |-> 200,
                      rows |-> Len(rows), updated_customers |-> r.ret]
    /\ nops' = nops + 1
    /\ UNCHANGED <<invoices, payments, settings, actions>>

\* PUT /settings
update_settings ==
    /\ nops < MaxOps
    /\ \E cost_of_cash_annual \in Rates, late_fee_rate_annual \in Rates :
          /\ req' = [op |-> "update_settings",
                     cost_of_cash_annual |-> cost_of_cash_annual,
                     late_fee_rate_annual |-> late_fee_rate_annual]
          /\ settings' = set_late_fee_rate_annual(
                             set_cost_of_cash_annual(settings, cost_of_cash_annual),
                             late_fee_rate_annual)
          /\ resp' = [op |-> "update_settings", status |-> 200,
                      cost_of_cash_annual |-> cost_of_cash_annual,
                      late_fee_rate_annual |-> late_fee_rate_annual]
    /\ nops' = nops + 1
    /\ UNCHANGED <<customers, invoices, payments, regions, actions>>

\* POST /actions
create_action ==
    /\ nops < MaxOps
    /\ \E customer_no \in {"C1"} :
          /\ req' = [op |-> "create_action", customer_no |-> customer_no]
          /\ actions' = Append(actions, [customer_no |-> customer_no,
                                         customer_name |-> None,
                                         action_type |-> "ihtar", note |-> None,
                                         status |-> "open"])
          /\ resp' = [op |-> "create_action", status |-> 200, id |-> Len(actions) + 1,
                      customer_no |-> customer_no]
    /\ nops' = nops + 1
    /\ UNCHANGED <<customers, invoices, payments, regions, settings>>

import_invoices == ImportInvoices(InvoiceRows)

import_payments == ImportPayments(PaymentRows)

import_customer_regions == ImportCustomerRegions(RegionRows)

-----------------------------------------------------------------------------
(* Requests that read.  The lists of top_risky_customers, top_unpaid_customers,
   regions_summary and region_customers are modelled as the set of their
   entries. *)

dashboard_storing_defaults ==
    /\ nops <= MaxOps
    /\ \E today \in Todays :
          /\ req' = [op |-> "dashboard", today |-> today]
          /\ resp' = [op |-> "dashboard", status |-> 200, today |-> today,
                   body |-> dashboard_result(invoices, payments, settings, today)]
    /\ nops' = nops + 1
    /\ settings' = set_late_fee_rate_annual(
                       set_cost_of_cash_annual(settings,
                           get_cost_of_cash_annual(settings, DefaultCostOfCash)),
                       get_late_fee_rate_annual(settings, DefaultLateFeeRate))
    /\ UNCHANGED <<customers, invoices, payments, regions, actions>>

\* GET /dashboard
dashboard ==
    /\ nops <= MaxOps
    /\ \E today \in Todays :
          /\ req' = [op |-> "dashboard", today |-> today]
          /\ resp' = [op |-> "dashboard", status |-> 200, today |-> today,
                   body |-> dashboard_result(invoices, payments, settings, today)]
    /\ nops' = nops + 1
    /\ UNCHANGED <<customers, invoices, payments, regions, settings, actions>>

\* GET /customers/{customer_no}/summary
customer_summary ==
    /\ nops <= MaxOps
    /\ \E customer_no \in CustomerArgs, today \in Todays :
          /\ req' = [op |-> "customer_summary", customer_no |-> customer_no, today |-> today]
          /\ resp' = IF customer_no \notin DOMAIN customers
                  THEN [op |-> "customer_summary", status |-> 404,
                        customer_no |-> customer_no]
                  ELSE [op |-> "customer_summary", status |-> 200,
                        customer_no |-> customer_no, today |-> today,
                        customer_name |-> customers[customer_no].name,
                        region_id |-> customers[customer_no].region_id,
                        body |-> _customer_metrics(customers, invoices, payments,
                                     settings, customer_no,
                                     get_cost_of_cash_annual(settings, DefaultCostOfCash),
                                     today)]
    /\ nops' = nops + 1
    /\ UNCHANGED <<customers, invoices, payments, regions, settings, actions>>

\* the metrics of the customers of a region (of all customers when region_id is None)
MetricsOfCustomers(region_id, today) ==
    {_customer_metrics(customers, invoices, payments, settings, c,
                       get_cost_of_cash_annual(settings, DefaultCostOfCash), today) :
        c \in {d \in DOMAIN customers :
                  region_id = None \/ customers[d].region_id = region_id}}

\* GET /customers/top-risky
top_risky_customers ==
    /\ nops <= MaxOps
    /\ \E today \in Todays, region_id \in {None} :
          /\ req' = [op |-> "top_risky_customers", region_id |-> region_id, today |-> today]
          /\ resp' = [op |-> "top_risky_customers", status |-> 200, today |-> today,
                   body |-> {m \in MetricsOfCustomers(region_id, today) :
                               ~(/\ m.total_open <= 0 /\ m.loss_30d <= 0
                                 /\ m.total_late_loss <= 0
                                 /\ m.unpaid_invoice_count <= 0)}]
    /\ nops' = nops + 1
    /\ UNCHANGED <<customers, invoices, payments, regions, settings, actions>>

\* GET /customers/top-unpaid
top_unpaid_customers ==
    /\ nops <= MaxOps
    /\ \E today \in Todays, region_id \in {None} :
          /\ req' = [op |-> "top_unpaid_customers", region_id |-> region_id, today |-> today]
          /\ resp' = [op |-> "top_unpaid_customers", status |-> 200, today |-> today,
                   body |-> {m \in MetricsOfCustomers(region_id, today) :
                               ~(m.unpaid_invoice_count <= 0)}]
    /\ nops' = nops + 1
    /\ UNCHANGED <<customers, invoices, payments, regions, settings, actions>>

\* customer_region.get(customer_no, -1): the group of a customer, None for Unknown
RegionOf(cust, customer_no) ==
    IF customer_no \in DOMAIN cust THEN cust[customer_no].region_id ELSE None

RegionPayments_of_assigned_customers(cust, pay, today, rid) ==
    {n \in Last30(pay, today) : rid # None /\ RegionOf(cust, pay[n].customer_no) = rid}

\* the payments of the last 30 days that are added to the bucket of a group
RegionPayments(cust, pay, today, rid) ==
    {n \in Last30(pay, today) : RegionOf(cust, pay[n].customer_no) = rid}

regions_summary_result(cust, inv, pay, regs, sett, today) ==
    LET cost_of_cash == get_cost_of_cash_annual(sett, DefaultCostOfCash)
        ikeys(rid) == {k \in DOMAIN inv : RegionOf(cust, inv[k].customer_no) = rid}
        pidx(rid)  == RegionPayments(cust, pay, today, rid)
        rids == {RegionOf(cust, inv[k].customer_no) : k \in DOMAIN inv}
                \cup {RegionOf(cust, pay[n].customer_no) : n \in Last30(pay, today)}
        total_open(rid) == SumOver([k \in ikeys(rid) |-> Bal(inv[k])], ikeys(rid))
        overdue(rid) == SumOver([k \in ikeys(rid) |->
                            IF IsOverdue(inv[k], today) THEN Bal(inv[k]) ELSE 0], ikeys(rid))
        over90(rid) == SumOver([k \in ikeys(rid) |->
                            IF IsOverdue(inv[k], today) /\ today - Val(inv[k].due_date) > 90
                            THEN Bal(inv[k]) ELSE 0], ikeys(rid))
        weighted_days(rid) == RatioOrZero(WeightedNum(inv, ikeys(rid), today), overdue(rid))
        loss_30(rid) == LossSum(pay, pidx(rid), cost_of_cash)
    IN {[region_id |-> rid,
         region_name |-> IF rid # None /\ Val(rid) \in 1..Len(regs)
                         THEN regs[Val(rid)] ELSE "Unknown",
         total_open |-> total_open(rid),
         overdue |-> overdue(rid),
         over90 |-> over90(rid),
         weighted_overdue_days |-> weighted_days(rid),
         loss_30d |-> loss_30(rid),
         risk_score |-> RiskOf(total_open(rid), overdue(rid), over90(rid),
                               weighted_days(rid), loss_30(rid))] : rid \in rids}

\* GET /regions/summary
regions_summary ==
    /\ nops <= MaxOps
    /\ \E today \in Todays :
          /\ req' = [op |-> "regions_summary", today |-> today]
          /\ resp' = [op |-> "regions_summary", status |-> 200, today |-> today,
                   body |-> regions_summary_result(customers, invoices, payments,
                                                   regions, settings, today)]
    /\ nops' = nops + 1
    /\ UNCHANGED <<customers, invoices, payments, regions, settings, actions>>

\* GET /regions/{region_id}/customers
region_customers ==
    /\ nops <= MaxOps
    /\ \E today \in Todays, region_id \in {1} :
          /\ req' = [op |-> "region_customers", region_id |-> region_id, today |-> today]
          /\ resp' = IF region_id \notin 1..Len(regions)
                  THEN [op |-> "region_customers", status |-> 404]
                  ELSE [op |-> "region_customers", status |-> 200, today |-> today,
                        region_id |-> region_id, region_name |-> regions[region_id],
                        body |-> {m \in MetricsOfCustomers(Some(region_id), today) :
                                    ~(m.total_open <= 0 /\ m.loss_30d <= 0)}]
    /\ nops' = nops + 1
    /\ UNCHANGED <<customers, invoices, payments, regions, settings, actions>>

\* GET /customers/{customer_no}/invoices
customer_invoices ==
    /\ nops <= MaxOps
    /\ \E customer_no \in CustomerArgs, today \in Todays :
          /\ req' = [op |-> "customer_invoices", customer_no |-> customer_no, today |-> today]
          /\ resp' = [op |-> "customer_invoices", status |-> 200,
                   customer_no |-> customer_no, today |-> today,
                   body |-> {[invoice_no |-> k, due_date |-> invoices[k].due_date,
                              open_balance |-> invoices[k].open_balance,
                              overdue_days |->
                                  IF invoices[k].due_date # None
                                     /\ today - Val(invoices[k].due_date) > 0
                                  THEN today - Val(invoices[k].due_date) ELSE 0,
                              is_overdue |->
                                  invoices[k].due_date # None
                                  /\ today - Val(invoices[k].due_date) > 0] :
                             k \in {j \in DOMAIN invoices :
                                       invoices[j].customer_no = customer_no}}]
    /\ nops' = nops + 1
    /\ UNCHANGED <<customers, invoices, payments, regions, settings, actions>>

\* the rows of customer_late_payments and of the export: one per payment read
PaymentLossRows(pidx, cost_of_cash) ==
    {[payment_id |-> n, ar_invoice_no |-> payments[n].ar_invoice_no,
      value_date |-> payments[n].value_date, delay_days |-> payments[n].delay_days,
      applied_amount |-> payments[n].applied_amount,
      loss |-> calculate_late_loss_payment(payments[n], cost_of_cash)] : n \in pidx}

\* GET /customers/{customer_no}/late-payments
customer_late_payments ==
    /\ nops <= MaxOps
    /\ \E customer_no \in CustomerArgs :
          /\ req' = [op |-> "customer_late_payments", customer_no |-> customer_no]
          /\ resp' = [op |-> "customer_late_payments", status |-> 200,
                   customer_no |-> customer_no,
                   body |-> PaymentLossRows(
                                PaymentsOfCustomer(customers, payments, customer_no),
                                get_cost_of_cash_annual(settings, DefaultCostOfCash))]
    /\ nops' = nops + 1
    /\ UNCHANGED <<customers, invoices, payments, regions, settings, actions>>

\* GET /customers/{customer_no}/financial-loss-export
customer_financial_loss_export ==
    /\ nops <= MaxOps
    /\ \E customer_no \in CustomerArgs :
          /\ req' = [op |-> "customer_financial_loss_export", customer_no |-> customer_no]
          /\ resp' = IF customer_no \notin DOMAIN customers
                  THEN [op |-> "customer_financial_loss_export", status |-> 404,
                        customer_no |-> customer_no]
                  ELSE [op |-> "customer_financial_loss_export", status |-> 200,
                        customer_no |-> customer_no,
                        body |-> PaymentLossRows(
                                     PaymentsOfCustomer(customers, payments, customer_no),
                                     get_cost_of_cash_annual(settings, DefaultCostOfCash))]
    /\ nops' = nops + 1
    /\ UNCHANGED <<customers, invoices, payments, regions, settings, actions>>

\* GET /settings
get_settings ==
    /\ nops <= MaxOps
    /\ req' = [op |-> "get_settings"]
    /\ resp' = [op |-> "get_settings", status |-> 200,
                cost_of_cash_annual |-> get_cost_of_cash_annual(settings, DefaultCostOfCash),
                late_fee_rate_annual |-> get_late_fee_rate_annual(settings, DefaultLateFeeRate)]
    /\ nops' = nops + 1
    /\ UNCHANGED <<customers, invoices, payments, regions, settings, actions>>

-----------------------------------------------------------------------------
(* The specification *)

Next ==
    \/ import_invoices
    \/ import_payments
    \/ import_customer_regions
    \/ update_settings
    \/ create_action
    \/ dashboard
    \/ customer_summary
    \/ top_risky_customers
    \/ top_unpaid_customers
    \/ regions_summary
    \/ region_customers
    \/ customer_invoices
    \/ customer_late_payments
    \/ customer_financial_loss_export
    \/ get_settings

Spec == Init /\ [][Next]_vars

-----------------------------------------------------------------------------
(* The imports alone, over rows that differ in every cell the importers
   look at *)

import_invoices_all == ImportInvoices(ImportInvoiceRows)

import_payments_all == ImportPayments(ImportPaymentRows)

\* region rows: by identifier, by name, without customer cells, for an
\* identifier that is not stored, without region cell
ImportRegionRows ==
    {RegRow("C1", "N1", "R1"),
     RegRow(NaN, "N1", "R2"),
     RegRow(NaN, NaN, "R1"),
     RegRow("C9", "N1", "R1"),
     RegRow("C1", "N1", NaN)}

import_customer_regions_all == ImportCustomerRegions(ImportRegionRows)

NextImport ==
    \/ import_invoices_all
    \/ import_payments_all
    \/ import_customer_regions_all

SpecImport == Init /\ [][NextImport]_vars

-----------------------------------------------------------------------------
(* What the claims call a row with its key: the cell holds a text that is not
   blank; an empty cell (NaN) and a missing column hold none *)

HasText(cell) == cell \notin {NoCell, NaN, "", " "}

HasCustomerId(row) == HasText(row.customer_no)

HasInvoiceKeys(row) == HasText(row.invoice_no) /\ HasText(row.customer_no)

ValidPaymentRows(df) == SelectSeq(df, HasCustomerId)

ValidInvoiceRows(df) == SelectSeq(df, HasInvoiceKeys)

\* the text of a cell that has one
TextOf(cell) == IF cell = " N1 " THEN "N1" ELSE cell

-----------------------------------------------------------------------------
(* C1 *)

\* C1: after import_payments_df the payment table holds exactly one payment
\* per batch row that has a customer identifier, in the order of the rows
\* (so nothing stored before the import is left), and the call returns their
\* number.
C1_ReplaceAllPayments ==
    req.op = "import_payments" =>
        LET valid == ValidPaymentRows(req.df) IN
        /\ resp.status = 200
        /\ resp.inserted = Len(valid)
        /\ Len(payments) = Len(valid)
        /\ \A n \in 1..Len(valid) :
              /\ payments[n].customer_no = TextOf(valid[n].customer_no)
              /\ payments[n].payment_date = valid[n].payment_date
              /\ payments[n].invoice_date = valid[n].invoice_date
              /\ payments[n].applied_amount = valid[n].applied_amount

\* a second payment import in a row, of a file with one row to keep and one to drop
C1_Witness ==
    /\ req.op = "import_payments"
    /\ nops = 2
    /\ Len(req.df) = 2
    /\ Len(payments) = 1
    /\ resp.inserted = 1

-----------------------------------------------------------------------------
(* C2 *)

\* C2: importing the batch of the last invoice import once more leaves the
\* stored invoices as they are: the same invoice numbers and, for each, the
\* same value of every field.
C2_IdempotentInvoiceImport ==
    req.op = "import_invoices" =>
        import_invoices_df(customers, invoices, req.df).invoices = invoices

-----------------------------------------------------------------------------
(* C3 *)

\* the last row of df with this invoice number
LastRowWith(df, invoice_no) ==
    df[CHOOSE n \in 1..Len(df) :
          /\ TextOf(df[n].invoice_no) = invoice_no
          /\ \A m \in (n + 1)..Len(df) : TextOf(df[m].invoice_no) # invoice_no]

\* C3: import_invoices_df completes for every batch, a batch that repeats a
\* new invoice number included, and leaves one stored invoice for each
\* invoice number of the valid rows, with the values of the last row that
\* has the number.
C3_UpsertByInvoiceNo ==
    req.op = "import_invoices" =>
        LET valid == ValidInvoiceRows(req.df) IN
        /\ resp.status = 200
        /\ \A n \in 1..Len(valid) :
              LET invoice_no == TextOf(valid[n].invoice_no)
                  last       == LastRowWith(valid, invoice_no)
              IN /\ invoice_no \in DOMAIN invoices
                 /\ invoices[invoice_no].customer_no = TextOf(last.customer_no)
                 /\ invoices[invoice_no].invoice_date = last.invoice_date
                 /\ invoices[invoice_no].due_date = last.due_date
                 /\ invoices[invoice_no].total_amount = last.total_amount
                 /\ invoices[invoice_no].open_balance = last.open_balance

-----------------------------------------------------------------------------
(* C4 *)

\* the rows the loop of import_invoices_df does not skip: each of them
\* inserts an invoice or updates one
WritingInvoiceRows(df) ==
    SelectSeq(df, LAMBDA row : CellText(row.invoice_no) # ""
                               /\ _normalize_customer_no(row.customer_no) # None)

\* C4: the count a completed import_invoices_df returns, inserted_or_updated
\* in the response, is the number of rows that inserted or updated an invoice.
C4_CountsInsertedOrUpdated ==
    (req.op = "import_invoices" /\ resp.status = 200) =>
        resp.inserted_or_updated = Len(WritingInvoiceRows(req.df))

-----------------------------------------------------------------------------
(* C5 *)

\* C5: a row without its key has no effect: an invoice import leaves the
\* customers and invoices, and returns the count, that the import of the
\* valid rows alone leaves and returns; a payment import likewise, with the
\* rows that have a customer identifier.
C5_RowsWithoutKeyAreDropped ==
    [][ /\ req'.op = "import_invoices" =>
            LET all   == import_invoices_df(customers, invoices, req'.df)
                valid == import_invoices_df(customers, invoices, ValidInvoiceRows(req'.df))
            IN /\ customers' = valid.customers
               /\ invoices' = valid.invoices
               /\ all.ok = valid.ok
               /\ all.ret = valid.ret
        /\ req'.op = "import_payments" =>
            \E pick \in LatestInvoicePicks(invoices) :
                LET valid == import_payments_df(customers, invoices, payments,
                                 ValidPaymentRows(req'.df), pick)
                IN /\ customers' = valid.customers
                   /\ payments' = valid.payments
                   /\ resp'.inserted = valid.ret
      ]_vars

-----------------------------------------------------------------------------
(* C6 *)

\* the name the claim gives a customer first seen in these rows: the last
\* name the rows carry for it, the identifier when they carry none
RECURSIVE NameFromRows(_, _, _)
NameFromRows(rows, customer_no, name) ==
    IF rows = <<>> THEN name
    ELSE NameFromRows(Tail(rows), customer_no,
             IF TextOf(Head(rows).customer_no) = customer_no
                /\ HasText(Head(rows).customer_name)
             THEN TextOf(Head(rows).customer_name) ELSE name)

\* C6: no step removes a customer, and an invoice or payment import creates,
\* for every identifier of its valid rows that is not stored, a customer
\* named by the rows, by the identifier when they carry no name.
C6_CustomersOnlyGrow ==
    [][ /\ DOMAIN customers \subseteq DOMAIN customers'
        /\ \A c \in DOMAIN customers : c \in DOMAIN customers'
        /\ req'.op \in {"import_invoices", "import_payments"} =>
              LET valid == IF req'.op = "import_invoices"
                           THEN ValidInvoiceRows(req'.df)
                           ELSE ValidPaymentRows(req'.df)
              IN \A n \in 1..Len(valid) :
                    LET c == TextOf(valid[n].customer_no) IN
                    c \notin DOMAIN customers =>
                        /\ c \in DOMAIN customers'
                        /\ customers'[c].name = Some(NameFromRows(valid, c, c))
      ]_vars

-----------------------------------------------------------------------------
(* C7 *)

MetricOps ==
    {"dashboard", "customer_summary", "top_risky_customers", "top_unpaid_customers",
     "regions_summary", "region_customers", "customer_invoices",
     "customer_late_payments", "customer_financial_loss_export"}

\* C7: a step that serves a dashboard, customer summary, top-risky,
\* top-unpaid, region summary, region customers, customer invoices,
\* late-payments or export request leaves the customers, invoices, payments,
\* regions, settings and actions as they were.
C7_MetricsReadOnly ==
    [][ (req'.op \in MetricOps /\ nops' = nops + 1) =>
            /\ customers' = customers
            /\ invoices' = invoices
            /\ payments' = payments
            /\ regions' = regions
            /\ settings' = settings
            /\ actions' = actions
      ]_vars

\* a metric request served on a store that holds customers, invoices and
\* payments and has no settings row
C7_Witness ==
    /\ req.op \in MetricOps
    /\ resp.status = 200
    /\ customers # <<>>
    /\ invoices # <<>>
    /\ payments # <<>>
    /\ settings = <<>>

-----------------------------------------------------------------------------
(* C9 *)

\* the indices of the payments stored with a delay
Delayed(pay) == {n \in 1..Len(pay) : pay[n].delay_days > 0}

\* C9: a stored payment whose delay_days is not positive has loss 0 at every
\* positive rate, and the losses the dashboard and the customer summary
\* report are those of the payments stored with a delay.
C9_NoLossWithoutDelay ==
    /\ \A n \in 1..Len(payments) :
          payments[n].delay_days <= 0 =>
              \A rate \in Rates \cup {DefaultCostOfCash} :
                  calculate_late_loss_payment(payments[n], rate) = 0
    /\ (resp.op = "dashboard") =>
          /\ resp.body.total_late_loss =
                LossSum(payments, Delayed(payments), resp.body.cost_of_cash_annual)
          /\ resp.body.loss_30d =
                LossSum(payments, Delayed(payments) \cap Last30(payments, resp.today),
                        resp.body.cost_of_cash_annual)
    /\ (resp.op = "customer_summary" /\ resp.status = 200) =>
          resp.body.total_late_loss =
              LossSum(payments,
                      Delayed(payments)
                          \cap PaymentsOfCustomer(customers, payments, resp.customer_no),
                      get_cost_of_cash_annual(settings, DefaultCostOfCash))

-----------------------------------------------------------------------------
(* calculate_late_loss_payment on its own: the payments and rates it is
   applied to *)

LossPayments ==
    {Payment("C1", Some("N1"), invoice_date, payment_date, None, payment_date, 0,
             vade, applied_amount, applied_amount) :
        invoice_date \in {None, Some(0)},
        payment_date \in {None, Some(20), Some(30), Some(60)},
        vade \in {None, Some(30)},
        applied_amount \in {None, Some(0), Some(5000), Some(-5000)}}

LossRates == {10, 45}

InitLoss ==
    /\ customers = <<>>
    /\ invoices = <<>>
    /\ payments \in {<<p>> : p \in LossPayments}
    /\ regions = <<>>
    /\ settings = <<>>
    /\ actions = <<>>
    /\ req = [op |-> "start"]
    /\ resp = [op |-> "start"]
    /\ nops = 0

\* one call; loss is the result times RateDen
late_loss ==
    /\ nops = 0
    /\ \E cost_of_cash \in LossRates :
          /\ req' = [op |-> "calculate_late_loss_payment", cost_of_cash |-> cost_of_cash]
          /\ resp' = [op |-> "calculate_late_loss_payment",
                      loss |-> calculate_late_loss_payment(payments[1], cost_of_cash)]
    /\ nops' = nops + 1
    /\ UNCHANGED <<customers, invoices, payments, regions, settings, actions>>

NextLoss == late_loss

SpecLoss == InitLoss /\ [][NextLoss]_vars

-----------------------------------------------------------------------------
(* C8 *)

\* C8: the loss is 0 when the payment date, the invoice date, the term or
\* the amount is absent, when the amount is 0, or when the payment date is
\* not after invoice date + term; otherwise it is
\* delay * amount * rate / 100 / 365 with delay = payment date - (invoice
\* date + term).  Amount 5000, invoice date day 0 (2024-01-01), term 30,
\* payment date day 60 (2024-03-01), rate 45: delay 30, loss 30*5000*45/36500.
C8_LateLossFormula ==
    req.op = "calculate_late_loss_payment" =>
        LET p == payments[1] IN
        /\ (p.payment_date = None \/ p.invoice_date = None \/ p.vade = None
             \/ p.applied_amount = None) => resp.loss = 0
        /\ (p.payment_date # None /\ p.invoice_date # None /\ p.vade # None
             /\ p.applied_amount # None) =>
              LET delay == Val(p.payment_date) - (Val(p.invoice_date) + Val(p.vade)) IN
              /\ (Val(p.applied_amount) = 0 \/ delay <= 0) => resp.loss = 0
              /\ (Val(p.applied_amount) # 0 /\ delay > 0) =>
                    resp.loss = delay * Val(p.applied_amount) * req.cost_of_cash
        /\ (p.applied_amount = Some(5000) /\ p.invoice_date = Some(0) /\ p.vade = Some(30)
             /\ p.payment_date = Some(60) /\ req.cost_of_cash = 45) =>
              resp.loss = 30 * 5000 * 45

\* the example of the claim
C8_Witness ==
    /\ req.op = "calculate_late_loss_payment"
    /\ req.cost_of_cash = 45
    /\ payments[1].applied_amount = Some(5000)
    /\ payments[1].payment_date = Some(60)
    /\ resp.loss = 6750000

-----------------------------------------------------------------------------
(* The metrics over invoices that differ in due date and open balance *)

MetricInvoiceRows ==
    {InvRow("I1", "C1", "N1", Some(30), Some(1000)),
     InvRow("I1", "C1", "N1", Some(40), Some(1000)),
     InvRow("I1", "C1", "N1", Some(150), Some(1000)),
     InvRow("I1", "C1", "N1", None, Some(1000)),
     InvRow("I1", "C1", "N1", Some(30), Some(0)),
     InvRow("I1", "C1", "N1", Some(30), Some(-500)),
     InvRow("I1", "C1", "N1", Some(30), None),
     InvRow("I2", "C1", "N1", Some(30), Some(500)),
     InvRow("I2", "C2", "N2", Some(30), Some(1000))}

\* the store after one invoice import into the empty store
InitMetrics ==
    /\ \E df \in SeqsUpTo(MetricInvoiceRows, MaxBatchLen) :
          LET r == import_invoices_df(<<>>, <<>>, df) IN
          /\ customers = r.customers
          /\ invoices = r.invoices
    /\ payments = <<>>
    /\ regions = <<>>
    /\ settings = <<>>
    /\ actions = <<>>
    /\ req = [op |-> "start"]
    /\ resp = [op |-> "start"]
    /\ nops = 0

NextMetrics ==
    \/ update_settings
    \/ dashboard
    \/ customer_summary

SpecMetrics == InitMetrics /\ [][NextMetrics]_vars

-----------------------------------------------------------------------------
(* C10 *)

\* the invoices among keys that accrue a late fee on the day today
Accruing(inv, keys, today) ==
    {k \in keys : /\ inv[k].open_balance # None
                  /\ Val(inv[k].open_balance) > 0
                  /\ inv[k].due_date # None
                  /\ Val(inv[k].due_date) < today}

\* the late fee accrued on them, times RateDen
AccruedFee(inv, keys, today, rate) ==
    SumOver([k \in Accruing(inv, keys, today) |->
                Val(inv[k].open_balance) * (today - Val(inv[k].due_date)) * rate],
            Accruing(inv, keys, today))

\* C10: late_fee_unpaid_total of the dashboard, and late_fee_unpaid of a
\* customer, is the sum over the stored invoices (of the customer) with a
\* positive open balance and a due date before today of
\* open_balance * days overdue * late_fee_rate / 100 / 365; the other
\* invoices add nothing.  Due 10 days ago, balance 1000, rate 36:
\* 1000*10*36/36500.
C10_LateFeeAccrual ==
    LET rate == IF "late_fee_rate_annual" \in DOMAIN settings
                THEN settings["late_fee_rate_annual"] ELSE 36
    IN
    /\ resp.op = "dashboard" =>
          resp.body.late_fee_unpaid_total =
              AccruedFee(invoices, DOMAIN invoices, resp.today, rate)
    /\ (resp.op = "customer_summary" /\ resp.status = 200) =>
          resp.body.late_fee_unpaid =
              AccruedFee(invoices,
                         {k \in DOMAIN invoices : invoices[k].customer_no = resp.customer_no},
                         resp.today, rate)
    /\ (resp.op = "dashboard" /\ resp.today = 40 /\ settings = <<>>
        /\ DOMAIN invoices = {"I1"} /\ invoices["I1"].due_date = Some(30)
        /\ invoices["I1"].open_balance = Some(1000)) =>
          resp.body.late_fee_unpaid_total = 1000 * 10 * 36

\* the dashboard on the day the one accruing invoice is 10 days overdue, at
\* the default rate, next to an invoice with a negative open balance
C10_Witness ==
    /\ resp.op = "dashboard"
    /\ resp.today = 40
    /\ settings = <<>>
    /\ DOMAIN invoices = {"I1", "I2"}
    /\ invoices["I1"].open_balance = Some(-500)
    /\ resp.body.late_fee_unpaid_total = 500 * 10 * 36

-----------------------------------------------------------------------------
(* calculate_risk_score on its own, and the requests that report a risk
   score, over stores with negative and offsetting balances *)

RiskRatios == {Rat(-1, 2), Rat(0, 1), Rat(1, 3), Rat(1, 2), Rat(1, 1), Rat(3, 2)}

RiskDays == {Rat(-10, 1), Rat(0, 1), Rat(10, 1), Rat(60, 1), Rat(119, 1), Rat(120, 1),
             Rat(200, 1)}

RiskLossRatios == {Rat(-1, 100), Rat(0, 1), Rat(1, 100), Rat(3, 40), Rat(1, 10), Rat(1, 2)}

\* invoices of one customer: overdue with a positive or a negative balance,
\* not yet due with a positive or a negative balance
RiskInvoiceRows ==
    {InvRow("I1", "C1", "N1", Some(30), Some(1000)),
     InvRow("I1", "C1", "N1", Some(30), Some(-500)),
     InvRow("I2", "C1", "N1", Some(150), Some(500)),
     InvRow("I2", "C1", "N1", Some(150), Some(-500)),
     InvRow("I2", "C1", "N1", Some(150), Some(1000))}

\* the store after one invoice import into the empty store
InitRisk ==
    /\ \E df \in SeqsUpTo(RiskInvoiceRows, MaxBatchLen) :
          LET r == import_invoices_df(<<>>, <<>>, df) IN
          /\ customers = r.customers
          /\ invoices = r.invoices
    /\ payments = <<>>
    /\ regions = <<>>
    /\ settings = <<>>
    /\ actions = <<>>
    /\ req = [op |-> "start"]
    /\ resp = [op |-> "start"]
    /\ nops = 0

\* one call of calculate_risk_score
risk_score ==
    /\ nops = 0
    /\ \E overdue_ratio \in RiskRatios, over90_ratio \in RiskRatios,
          weighted_days \in RiskDays, loss_ratio \in RiskLossRatios :
          /\ req' = [op |-> "calculate_risk_score", overdue_ratio |-> overdue_ratio,
                     over90_ratio |-> over90_ratio, weighted_days |-> weighted_days,
                     loss_ratio |-> loss_ratio]
          /\ resp' = [op |-> "calculate_risk_score",
                      risk_score |-> calculate_risk_score(overdue_ratio, over90_ratio,
                                                          weighted_days, loss_ratio)]
    /\ nops' = nops + 1
    /\ UNCHANGED <<customers, invoices, payments, regions, settings, actions>>

NextRisk ==
    \/ risk_score
    \/ dashboard
    \/ customer_summary
    \/ top_risky_customers
    \/ regions_summary

SpecRisk == InitRisk /\ [][NextRisk]_vars

-----------------------------------------------------------------------------
(* C11 *)

\* C11: calculate_risk_score returns a value between 0 and 100 (0 and 10000
\* hundredths) for all ratios, those above 1 and below 0 included, and so is
\* every risk_score that the dashboard, the customer summary, the top-risky
\* list and the region summary report.
C11_RiskScoreInRange ==
    /\ resp.op = "calculate_risk_score" => resp.risk_score \in 0..10000
    /\ resp.op = "dashboard" => resp.body.risk_score \in 0..10000
    /\ (resp.op = "customer_summary" /\ resp.status = 200) =>
          resp.body.risk_score \in 0..10000
    /\ resp.op \in {"top_risky_customers", "regions_summary"} =>
          \A m \in resp.body : m.risk_score \in 0..10000

\* a call with two ratios above 1, an age above 120 days and a negative loss ratio
C11_Witness ==
    /\ req.op = "calculate_risk_score"
    /\ req.overdue_ratio = Rat(3, 2)
    /\ req.over90_ratio = Rat(3, 2)
    /\ req.weighted_days = Rat(200, 1)
    /\ req.loss_ratio = Rat(-1, 100)
    /\ resp.risk_score = 8500

-----------------------------------------------------------------------------
(* C20 *)

\* clamp(scale * x) for scale = sn / sd, as a pair <<numerator, denominator>>
Component(x, sn, sd) ==
    IF x.n <= 0 THEN <<0, 1>>
    ELSE IF sn * x.n >= 100 * sd * x.d THEN <<100, 1>>
    ELSE <<sn * x.n, sd * x.d>>

Saturated(x, sn, sd) == Component(x, sn, sd) = <<100, 1>>

RatLe(a, b) == a.n * b.d <= b.n * a.d

-----------------------------------------------------------------------------
(* C12 *)

\* C12: the summary of a customer whose open balances sum to 0 and who has
\* no payments reports risk_score 0, whatever the balances and due dates of
\* the invoices are.
C12_NoExposureNoRisk ==
    (/\ resp.op = "customer_summary"
     /\ resp.status = 200
     /\ resp.body.total_open = 0
     /\ PaymentsOfCustomer(customers, payments, resp.customer_no) = {}) =>
        resp.body.risk_score = 0

-----------------------------------------------------------------------------
(* C16 *)

\* C16: a customer summary, customer invoices, late-payments or
\* financial-loss-export request for a customer identifier that is not
\* stored ends in 404.
C16_UnknownCustomerNotFound ==
    (/\ resp.op \in {"customer_summary", "customer_invoices",
                     "customer_late_payments", "customer_financial_loss_export"}
     /\ resp.customer_no \notin DOMAIN customers) =>
        resp.status = 404

-----------------------------------------------------------------------------
(* C17 *)

SettingKeys == {"cost_of_cash_annual", "late_fee_rate_annual"}

\* C17: the settings table is empty until the first update_settings and
\* holds one row per key afterwards; update_settings leaves exactly the pair
\* of its request, every other request leaves the settings as they are;
\* get_settings returns 45 and 36 while nothing was written and the stored
\* pair, that of the last update_settings, afterwards.
C17_SettingsRoundTrip ==
    [][ /\ (settings' = <<>> \/ DOMAIN settings' = SettingKeys)
        /\ req'.op = "update_settings" =>
              /\ DOMAIN settings' = SettingKeys
              /\ settings'["cost_of_cash_annual"] = req'.cost_of_cash_annual
              /\ settings'["late_fee_rate_annual"] = req'.late_fee_rate_annual
        /\ req'.op # "update_settings" => settings' = settings
        /\ req'.op = "get_settings" =>
              IF settings = <<>>
              THEN /\ resp'.cost_of_cash_annual = 45
                   /\ resp'.late_fee_rate_annual = 36
              ELSE /\ resp'.cost_of_cash_annual = settings["cost_of_cash_annual"]
                   /\ resp'.late_fee_rate_annual = settings["late_fee_rate_annual"]
      ]_vars

\* get_settings after two updates with different pairs returns the second pair
C17_Witness ==
    /\ req.op = "get_settings"
    /\ nops = 3
    /\ settings # <<>>
    /\ resp.cost_of_cash_annual = 50
    /\ resp.late_fee_rate_annual = 10

-----------------------------------------------------------------------------
(* C13 *)

\* the value date the claim gives a row: its value date, else its payment date
RowValueDate(row) == IF row.value_date # None THEN row.value_date ELSE row.payment_date

\* the delay the claim gives a row, against the stored invoices inv
RowDelay(row, inv) ==
    IF /\ RowValueDate(row) # None
       /\ HasText(row.ar_invoice_no)
       /\ TextOf(row.ar_invoice_no) \in DOMAIN inv
       /\ inv[TextOf(row.ar_invoice_no)].due_date # None
    THEN Max(0, Val(RowValueDate(row)) - Val(inv[TextOf(row.ar_invoice_no)].due_date))
    ELSE 0

\* C13: the payment stored for a row has delay_days = max(0, value date -
\* due date of the stored invoice the row references), the value date being
\* the row's value date or else its payment date, and 0 when the row has no
\* date, references no invoice, the invoice is not stored or has no due
\* date; so no stored delay_days is negative.
C13_DelayFromReferencedInvoice ==
    req.op = "import_payments" =>
        LET valid == ValidPaymentRows(req.df) IN
        /\ Len(payments) = Len(valid)
        /\ \A n \in 1..Len(valid) :
              /\ payments[n].delay_days = RowDelay(valid[n], invoices)
              /\ payments[n].delay_days >= 0

-----------------------------------------------------------------------------
(* C18 *)

\* C18: in every state, a stored payment that has a value date and
\* references a stored invoice that has a due date carries delay_days =
\* max(0, value date - the due date that invoice has now).
C18_DelayFollowsInvoice ==
    \A n \in 1..Len(payments) :
        (/\ payments[n].value_date # None
         /\ payments[n].ar_invoice_no # None
         /\ Val(payments[n].ar_invoice_no) \in DOMAIN invoices
         /\ invoices[Val(payments[n].ar_invoice_no)].due_date # None) =>
            payments[n].delay_days =
                Max(0, Val(payments[n].value_date)
                       - Val(invoices[Val(payments[n].ar_invoice_no)].due_date))

-----------------------------------------------------------------------------
(* C19 *)

\* every stored invoice and payment belongs to customer c, the payments carry
\* its identifier and stored name, and c is assigned to a region
SingleCustomerStore(c) ==
    /\ c \in DOMAIN customers
    /\ customers[c].region_id # None
    /\ DOMAIN invoices # {}
    /\ \A k \in DOMAIN invoices : invoices[k].customer_no = c
    /\ \A n \in 1..Len(payments) :
          /\ payments[n].customer_no = c
          /\ payments[n].customer_name = customers[c].name

ScopeFigures(m) ==
    [total_open |-> m.total_open, overdue |-> m.overdue, over90 |-> m.over90,
     loss_30d |-> m.loss_30d, risk_score |-> m.risk_score]

\* C19: when the whole store belongs to one customer assigned to one region,
\* a dashboard response equals that customer's summary and that region's
\* summary entry, for the same reference date, on total_open, overdue,
\* over90, loss_30d and risk_score.
C19_SameFiguresAtEveryScope ==
    (resp.op = "dashboard" /\ resp.status = 200) =>
        \A c \in DOMAIN customers :
            SingleCustomerStore(c) =>
                /\ ScopeFigures(resp.body) =
                      ScopeFigures(_customer_metrics(customers, invoices, payments, settings, c,
                                       get_cost_of_cash_annual(settings, DefaultCostOfCash),
                                       resp.today))
                /\ \A e \in regions_summary_result(customers, invoices, payments,
                                                   regions, settings, resp.today) :
                      e.region_id = customers[c].region_id =>
                          ScopeFigures(resp.body) = ScopeFigures(e)

-----------------------------------------------------------------------------
(* C14 *)

DatedInvRow(invoice_no, customer_no, customer_name, invoice_date, due_date) ==
    [InvRow(invoice_no, customer_no, customer_name, due_date, Some(1000)) EXCEPT !.invoice_date = invoice_date]

\* invoices that bear one name and differ in issue date and term-length:
\* terms of 30 and 60 days, a latest invoice without due date, an undated
\* invoice of a second customer
VadeInvoiceRows ==
    {DatedInvRow("I1", "C1", "N1", Some(0), Some(30)),
     DatedInvRow("I2", "C1", "N1", Some(10), Some(70)),
     DatedInvRow("I3", "C1", "N1", Some(20), None),
     DatedInvRow("I4", "C2", "N1", None, Some(50))}

\* payment rows: the name of the own customer, the name of another customer,
\* a blank name, an empty name cell
VadePaymentRows ==
    {PayRow("C1", "N1", "I1", Some(40), Some(60), Some(0), Some(5000)),
     PayRow("C3", "N1", "I1", Some(40), Some(60), Some(0), Some(5000)),
     PayRow("C1", " ", "I1", Some(40), Some(60), Some(0), Some(5000)),
     PayRow("C1", NaN, "I1", Some(40), Some(60), Some(0), Some(5000))}

\* the store after one invoice import
InitVade ==
    /\ \E df \in SeqsUpTo(VadeInvoiceRows, MaxBatchLen) :
          LET r == import_invoices_df(<<>>, <<>>, df) IN
          /\ customers = r.customers
          /\ invoices = r.invoices
    /\ payments = <<>>
    /\ regions = <<>>
    /\ settings = <<>>
    /\ actions = <<>>
    /\ req = [op |-> "start"]
    /\ resp = [op |-> "start"]
    /\ nops = 0

import_payments_vade == ImportPayments(VadePaymentRows)

NextVade == import_payments_vade

SpecVade == InitVade /\ [][NextVade]_vars

\* the invoices of `keys` no dated invoice of `keys` is issued after
LatestIssued(keys) ==
    {k \in keys :
        \/ invoices[k].invoice_date = None
        \/ \A j \in keys : invoices[j].invoice_date # None =>
                Val(invoices[j].invoice_date) <= Val(invoices[k].invoice_date)}

NameRead(cell) ==
    IF cell = NaN THEN Some("nan") ELSE IF HasText(cell) THEN Some(TextOf(cell)) ELSE None

-----------------------------------------------------------------------------
(* C15 *)

\* the text of a cell of a row, none when the column is missing or the cell
\* holds no text
CellOf(columns, column, cell) ==
    IF column \in columns /\ HasText(cell) THEN Some(TextOf(cell)) ELSE None

\* the stored customers a region row names: the one with the row's identifier
\* when the row has one, else those with the row's display name
NamedBy(cust, columns, row) ==
    LET id == CellOf(columns, "Customer Number", row.customer_no)
        nm == CellOf(columns, "Customer Name", row.customer_name)
    IN IF id # None THEN {c \in DOMAIN cust : c = Val(id)}
       ELSE IF nm # None THEN {c \in DOMAIN cust : cust[c].name = nm}
       ELSE {}

RegionMappingStep ==
    LET columns == req'.columns
        rows    == req'.df
    IN
    \* no customer is created, and only the region of a customer changes
    /\ DOMAIN customers' = DOMAIN customers
    /\ \A c \in DOMAIN customers : customers'[c].name = customers[c].name
    \* a customer no row names is left as it was
    /\ \A c \in DOMAIN customers :
          customers'[c] # customers[c] =>
              \E n \in 1..Len(rows) : c \in NamedBy(customers, columns, rows[n])
    \* a row with a region name assigns a customer it names to that region
    \* (the last of the rows that name a customer decides)
    /\ \A n \in 1..Len(rows) :
          LET region == CellOf(columns, "Region Name", rows[n].region_name)
              named  == NamedBy(customers, columns, rows[n])
          IN (region # None /\ named # {}) =>
                \E c \in named :
                    \/ \E m \in (n + 1)..Len(rows) : c \in NamedBy(customers, columns, rows[m])
                    \/ /\ customers'[c].region_id # None
                       /\ Val(customers'[c].region_id) \in 1..Len(regions')
                       /\ regions'[Val(customers'[c].region_id)] = Val(region)
    \* regions are only added, and their names stay unique
    /\ Len(regions') >= Len(regions)
    /\ SubSeq(regions', 1, Len(regions)) = regions
    /\ \A i, j \in 1..Len(regions') : regions'[i] = regions'[j] => i = j

\* C15: an import of region rows assigns every stored customer that a row
\* with a region name names, by identifier or by display name, to the region
\* of that name, creating the region if needed and keeping region names
\* unique; a row that names no stored customer changes and creates no
\* customer.
C15_RegionMappingLinksExistingCustomers ==
    [][(req'.op = "import_customer_regions" /\ nops' = nops + 1) => RegionMappingStep]_vars

-----------------------------------------------------------------------------
(* C21 *)

\* invoices of two customers: overdue (over 90 days at the later reference
\* date), not due, negative
GroupInvoiceRows ==
    {InvRow("I1", "C1", "N1", Some(30), Some(1000)),
     InvRow("I2", "C2", "N2", Some(30), Some(500)),
     InvRow("I3", "C2", "N2", Some(200), Some(-200))}

\* a late payment of each customer
GroupPaymentRows ==
    {PayRow("C1", "N1", "I1", Some(110), Some(110), Some(0), Some(5000)),
     PayRow("C2", "N2", "I2", Some(100), Some(100), Some(0), Some(3000))}

GroupRegionRows == {RegRow("C1", "N1", "R1"), RegRow("C2", "N2", "R2")}

\* the store after one invoice import and one payment import
InitGroups ==
    /\ \E idf \in SeqsUpTo(GroupInvoiceRows, MaxBatchLen) :
       \E pdf \in SeqsUpTo(GroupPaymentRows, MaxBatchLen) :
          LET ri == import_invoices_df(<<>>, <<>>, idf) IN
          \E pick \in LatestInvoicePicks(ri.invoices) :
              LET rp == import_payments_df(ri.customers, ri.invoices, <<>>, pdf, pick) IN
              /\ customers = rp.customers
              /\ invoices = ri.invoices
              /\ payments = rp.payments
    /\ regions = <<>>
    /\ settings = <<>>
    /\ actions = <<>>
    /\ req = [op |-> "start"]
    /\ resp = [op |-> "start"]
    /\ nops = 0

import_customer_regions_groups == ImportCustomerRegions(GroupRegionRows)

NextGroups ==
    \/ import_customer_regions_groups
    \/ regions_summary
    \/ dashboard

SpecGroups == InitGroups /\ [][NextGroups]_vars

\* C21: a region summary has exactly one group for the region (or for no
\* region, named "Unknown") of the customer of each stored invoice, and its
\* groups' total_open, overdue, over90 and loss_30d each add up to the
\* dashboard's figure for the same reference date.
C21_GroupsPartitionTheInvoices ==
    (resp.op = "regions_summary" /\ resp.status = 200) =>
        LET groups == resp.body
            whole  == dashboard_result(invoices, payments, settings, resp.today)
        IN
        /\ \A k \in DOMAIN invoices :
              Cardinality({e \in groups :
                  e.region_id = RegionOf(customers, invoices[k].customer_no)}) = 1
        /\ \A e \in groups : e.region_id = None => e.region_name = "Unknown"
        /\ \A e \in groups :
              LET mine == {k \in DOMAIN invoices :
                              RegionOf(customers, invoices[k].customer_no) = e.region_id}
              IN e.total_open = SumOver([k \in mine |-> Bal(invoices[k])], mine)
        /\ SumOver([e \in groups |-> e.total_open], groups) = whole.total_open
        /\ SumOver([e \in groups |-> e.overdue], groups) = whole.overdue
        /\ SumOver([e \in groups |-> e.over90], groups) = whole.over90
        /\ SumOver([e \in groups |-> e.loss_30d], groups) = whole.loss_30d

\* a summary with a region and the Unknown group, both with open balance,
\* over-90 balance and loss
C21_Witness ==
    /\ resp.op = "regions_summary"
    /\ Cardinality(resp.body) = 2
    /\ \E e \in resp.body : e.region_id = None /\ e.over90 > 0 /\ e.loss_30d > 0
    /\ \E e \in resp.body : e.region_id # None /\ e.total_open > 0 /\ e.loss_30d > 0

-----------------------------------------------------------------------------
(* top_risky_customers with sort_by and limit *)

\* db.query(Customer).all(): the orders the rows can come in
RowOrders(S) ==
    {q \in SeqsUpTo(S, Cardinality(S)) :
        Len(q) = Cardinality(S) /\ \A i, j \in 1..Len(q) : q[i] = q[j] => i = j}

\* the entry of a customer: its metrics with customer_name and region_id
RiskyEntry(cust, inv, pay, sett, c, today) ==
    LET m == _customer_metrics(cust, inv, pay, sett, c,
                 get_cost_of_cash_annual(sett, DefaultCostOfCash), today)
    IN [customer_no |-> c, customer_name |-> cust[c].name, region_id |-> cust[c].region_id,
        total_open |-> m.total_open, overdue |-> m.overdue, over90 |-> m.over90,
        unpaid_invoice_count |-> m.unpaid_invoice_count,
        late_fee_unpaid |-> m.late_fee_unpaid, loss_30d |-> m.loss_30d,
        total_late_loss |-> m.total_late_loss, risk_score |-> m.risk_score]

\* customers without balance, loss and unpaid invoice are left out
IsListed(m) ==
    ~(/\ m.total_open <= 0 /\ m.loss_30d <= 0
      /\ m.total_late_loss <= 0 /\ m.unpaid_invoice_count <= 0)

RECURSIVE raw_results(_, _, _, _, _, _)
raw_results(cust, inv, pay, sett, order, today) ==
    IF order = <<>> THEN <<>>
    ELSE LET m == RiskyEntry(cust, inv, pay, sett, Head(order), today)
             rest == raw_results(cust, inv, pay, sett, Tail(order), today)
         IN IF IsListed(m) THEN <<m>> \o rest ELSE rest

\* m.get("customer_name") or m.get("customer_no")
GroupKey(m) == IF m.customer_name = None \/ m.customer_name = Some("") THEN m.customer_no ELSE Val(m.customer_name)

Merge_first_risk(g, m) ==
    [g EXCEPT !.total_open = @ + m.total_open, !.overdue = @ + m.overdue,
              !.over90 = @ + m.over90, !.loss_30d = @ + m.loss_30d,
              !.total_late_loss = @ + m.total_late_loss,
              !.unpaid_invoice_count = @ + m.unpaid_invoice_count,
              !.late_fee_unpaid = @ + m.late_fee_unpaid]

\* an entry added to the group of its name
Merge(g, m) ==
    [g EXCEPT !.total_open = @ + m.total_open, !.overdue = @ + m.overdue,
              !.over90 = @ + m.over90, !.loss_30d = @ + m.loss_30d,
              !.total_late_loss = @ + m.total_late_loss,
              !.unpaid_invoice_count = @ + m.unpaid_invoice_count,
              !.late_fee_unpaid = @ + m.late_fee_unpaid,
              !.risk_score = IF m.risk_score > @ THEN m.risk_score ELSE @]

\* grouped: one entry per key, in the order of the first entry of each key
RECURSIVE grouped(_, _)
grouped(done, raw) ==
    IF raw = <<>> THEN done
    ELSE LET m == Head(raw) IN
         IF \E i \in 1..Len(done) : GroupKey(done[i]) = GroupKey(m)
         THEN LET i == CHOOSE j \in 1..Len(done) : GroupKey(done[j]) = GroupKey(m)
              IN grouped([done EXCEPT ![i] = Merge(done[i], m)], Tail(raw))
         ELSE grouped(Append(done, m), Tail(raw))

\* list.sort(key=..., reverse=True): descending, equal keys keep their order
RECURSIVE SortDesc(_, _)
SortDesc(q, field) ==
    IF q = <<>> THEN <<>>
    ELSE LET i == CHOOSE j \in 1..Len(q) :
                      /\ \A k \in 1..Len(q) : q[k][field] <= q[j][field]
                      /\ \A k \in 1..(j - 1) : q[k][field] < q[j][field]
         IN <<q[i]>> \o SortDesc(SubSeq(q, 1, i - 1) \o SubSeq(q, i + 1, Len(q)), field)

SortField(sort_by) ==
    CASE sort_by = "loss"    -> "total_late_loss"
      [] sort_by = "overdue" -> "overdue"
      [] sort_by = "unpaid"  -> "unpaid_invoice_count"
      [] OTHER               -> "risk_score"

top_risky_result(cust, inv, pay, sett, order, sort_by, limit, today) ==
    LET raw     == raw_results(cust, inv, pay, sett, order, today)
        results == SortDesc(IF sort_by = "loss" THEN grouped(<<>>, raw) ELSE raw,
                            SortField(sort_by))
    IN SubSeq(results, 1, IF Max(1, limit) < Len(results) THEN Max(1, limit) ELSE Len(results))

\* customers that share a display name, and one with its own
TopInvoiceRows ==
    {InvRow("I1", "C1", "N1", Some(30), Some(1000)),
     InvRow("I2", "C2", "N1", Some(200), Some(500)),
     InvRow("I3", "C3", "N3", Some(100), Some(700))}

TopPaymentRows ==
    {PayRow("C1", "N1", "I1", Some(40), Some(60), Some(0), Some(5000)),
     PayRow("C3", "N3", "I3", Some(110), Some(110), Some(0), Some(9000))}

SortBys == {"risk", "overdue", "unpaid", "loss"}

Limits == {0, 5}

\* the store after the import of the three invoices and one payment import
InitTop ==
    /\ \E idf \in RowOrders(TopInvoiceRows) :
       \E pdf \in SeqsUpTo(TopPaymentRows, MaxBatchLen) :
          LET ri == import_invoices_df(<<>>, <<>>, idf) IN
          \E pick \in LatestInvoicePicks(ri.invoices) :
              LET rp == import_payments_df(ri.customers, ri.invoices, <<>>, pdf, pick) IN
              /\ customers = rp.customers
              /\ invoices = ri.invoices
              /\ payments = rp.payments
    /\ regions = <<>>
    /\ settings = <<>>
    /\ actions = <<>>
    /\ req = [op |-> "start"]
    /\ resp = [op |-> "start"]
    /\ nops = 0

\* GET /customers/top-risky?sort_by=..&limit=..
top_risky_customers_sorted ==
    /\ nops <= MaxOps
    /\ \E today \in Todays, sort_by \in SortBys, limit \in Limits :
       \E order \in RowOrders(DOMAIN customers) :
          /\ req' = [op |-> "top_risky_customers", sort_by |-> sort_by, limit |-> limit,
                     today |-> today]
          /\ resp' = [op |-> "top_risky_customers", status |-> 200, today |-> today,
                      body |-> top_risky_result(customers, invoices, payments, settings,
                                                order, sort_by, limit, today)]
    /\ nops' = nops + 1
    /\ UNCHANGED <<customers, invoices, payments, regions, settings, actions>>

NextTop == top_risky_customers_sorted

SpecTop == InitTop /\ [][NextTop]_vars

-----------------------------------------------------------------------------
(* C22 *)

\* the entries of the listed customers
ListedEntries(today) ==
    {e \in {RiskyEntry(customers, invoices, payments, settings, c, today) : c \in DOMAIN customers} : IsListed(e)}

\* C22: with sort_by = "loss" the ranking has at most one entry per display
\* name; an entry's total_open, overdue, over90, loss_30d, total_late_loss,
\* unpaid_invoice_count and late_fee_unpaid are the sums over the listed
\* customers of that name and its risk_score is their maximum; the entries
\* are the first max(1, limit) of the groups in non-increasing order of
\* total_late_loss.
C22_LossRankingGroupsByName ==
    (resp.op = "top_risky_customers" /\ req.sort_by = "loss") =>
        LET body   == resp.body
            listed == ListedEntries(resp.today)
            names  == {e.customer_name : e \in listed}
            of(nm) == {e \in listed : e.customer_name = nm}
            total(nm) == SumOver([e \in of(nm) |-> e.total_late_loss], of(nm))
            cap    == IF req.limit > 1 THEN req.limit ELSE 1
        IN
        /\ \A i, j \in 1..Len(body) : body[i].customer_name = body[j].customer_name => i = j
        /\ \A i \in 1..Len(body) :
              LET mine == of(body[i].customer_name) IN
              /\ mine # {}
              /\ body[i].total_open = SumOver([e \in mine |-> e.total_open], mine)
              /\ body[i].overdue = SumOver([e \in mine |-> e.overdue], mine)
              /\ body[i].over90 = SumOver([e \in mine |-> e.over90], mine)
              /\ body[i].loss_30d = SumOver([e \in mine |-> e.loss_30d], mine)
              /\ body[i].total_late_loss = total(body[i].customer_name)
              /\ body[i].unpaid_invoice_count =
                     SumOver([e \in mine |-> e.unpaid_invoice_count], mine)
              /\ body[i].late_fee_unpaid = SumOver([e \in mine |-> e.late_fee_unpaid], mine)
              /\ \E e \in mine : body[i].risk_score = e.risk_score
              /\ \A e \in mine : e.risk_score <= body[i].risk_score
        /\ \A i \in 1..(Len(body) - 1) : body[i].total_late_loss >= body[i + 1].total_late_loss
        /\ Len(body) = IF Cardinality(names) < cap THEN Cardinality(names) ELSE cap
        /\ \A nm \in names :
              (\A i \in 1..Len(body) : body[i].customer_name # nm) =>
                  \A i \in 1..Len(body) : total(nm) <= body[i].total_late_loss

\* one entry for two customers of one name with different risk scores, the
\* second entry cut off by the limit
C22_Witness ==
    /\ resp.op = "top_risky_customers"
    /\ req.sort_by = "loss"
    /\ req.limit = 0
    /\ Len(resp.body) = 1
    /\ Cardinality(ListedEntries(resp.today)) = 3
    /\ resp.body[1].customer_name = Some("N1")
    /\ \E e \in ListedEntries(resp.today) :
          e.customer_name = Some("N1") /\ e.risk_score < resp.body[1].risk_score

-----------------------------------------------------------------------------
(* C23 *)

RemapInvoiceRows ==
    {InvRow("I1", "C1", "N1", Some(30), Some(1000)),
     InvRow("I2", "C2", "N2", Some(30), Some(500))}

\* region rows: two regions for one customer, a customer given by name, a row
\* without region cell
RemapRegionRows ==
    {RegRow("C1", "N1", "R1"),
     RegRow("C1", "N1", "R2"),
     RegRow(NaN, "N2", "R1"),
     RegRow("C1", "N1", NaN)}

\* the store after one invoice import
InitRemap ==
    /\ \E df \in SeqsUpTo(RemapInvoiceRows, MaxBatchLen) :
          LET r == import_invoices_df(<<>>, <<>>, df) IN
          /\ customers = r.customers
          /\ invoices = r.invoices
    /\ payments = <<>>
    /\ regions = <<>>
    /\ settings = <<>>
    /\ actions = <<>>
    /\ req = [op |-> "start"]
    /\ resp = [op |-> "start"]
    /\ nops = 0

import_customer_regions_remap == ImportCustomerRegions(RemapRegionRows)

NextRemap == import_customer_regions_remap

SpecRemap == InitRemap /\ [][NextRemap]_vars

\* every stored customer is mapped to at most one region by the rows of the
\* batch that name it and have a region name
OneRegionPerCustomer(cust, columns, rows) ==
    \A n, m \in 1..Len(rows) :
        LET rn == CellOf(columns, "Region Name", rows[n].region_name)
            rm == CellOf(columns, "Region Name", rows[m].region_name)
        IN (/\ rn # None /\ rm # None
            /\ NamedBy(cust, columns, rows[n]) \cap NamedBy(cust, columns, rows[m]) # {})
               => rn = rm

RegionCountStep ==
    LET changed == {c \in DOMAIN customers : customers'[c] # customers[c]} IN
    \* invoices and payments are not touched
    /\ invoices' = invoices
    /\ payments' = payments
    \* the count is the number of rows that changed an assignment
    /\ resp'.updated_customers <= Len(req'.df)
    /\ resp'.updated_customers >= Cardinality(changed)
    /\ Len(req'.df) = 1 => resp'.updated_customers = Cardinality(changed)
    \* the same batch imported again changes nothing and returns 0
    /\ (/\ req.op = "import_customer_regions"
        /\ req'.df = req.df
        /\ req'.columns = req.columns
        /\ OneRegionPerCustomer(customers, req.columns, req.df))
       => /\ resp'.updated_customers = 0
          /\ customers' = customers
          /\ regions' = regions

\* C23: a region import touches neither invoices nor payments and returns
\* the number of rows that changed a customer's region; the same batch, if it
\* maps each customer to one region, imported a second time returns 0 and
\* leaves customers and regions as they were.
C23_RegionImportCountsChanges ==
    [][(req'.op = "import_customer_regions" /\ nops' = nops + 1) => RegionCountStep]_vars

-----------------------------------------------------------------------------
(* Imports that raise before db.commit() *)

SessionClose_committing(before, session) == session

\* get_db: the exception leaves the generator through `finally: db.close()`;
\* the session never committed, so the transaction is rolled back
SessionClose(before, session) == before

\* import_invoices_df raising after k rows of the loop
import_invoices_df_raising(cust, inv, df, k) ==
    LET s == InvoiceLoop([cust |-> cust, cache |-> {}, inv |-> inv,
                          added |-> <<>>, imported |-> 0], SubSeq(df, 1, k))
    IN SessionClose([customers |-> cust, invoices |-> inv],
                    [customers |-> s.cust, invoices |-> s.inv])

\* import_payments_df raising after the delete and k rows of the loop
import_payments_df_raising(cust, inv, pay, df, pick, k) ==
    LET s == PaymentLoop([cust |-> cust, cache |-> {}, pay |-> DeletePayments(pay),
                          imported |-> 0], SubSeq(df, 1, k), inv, pick)
    IN SessionClose([customers |-> cust, payments |-> pay],
                    [customers |-> s.cust, payments |-> s.pay])

\* import_customer_regions_df raising after k rows of the loop
import_customer_regions_df_raising(cust, regs, df, pickc, k) ==
    LET s == RegionLoop([cust |-> cust, regs |-> regs, updated |-> 0],
                        SubSeq(df.rows, 1, k), df.columns, pickc)
    IN SessionClose([customers |-> cust, regions |-> regs],
                    [customers |-> s.cust, regions |-> s.regs])

AtomicInvoiceRows ==
    {InvRow("I1", "C1", "N1", Some(30), Some(1000)),
     InvRow("I2", "C2", "N2", Some(30), Some(500))}

AtomicPaymentRows ==
    {PayRow("C1", "N1", "I1", Some(40), Some(60), Some(0), Some(5000)),
     PayRow("C3", "N3", "I2", Some(40), Some(60), Some(0), Some(3000))}

AtomicRegionRows == {RegRow("C1", "N1", "R1"), RegRow("C2", "N2", "R2")}

\* the store after one invoice import and one payment import
InitAtomic ==
    /\ \E idf \in SeqsUpTo(AtomicInvoiceRows, MaxBatchLen) :
       \E pdf \in SeqsUpTo(AtomicPaymentRows, MaxBatchLen) :
          LET ri == import_invoices_df(<<>>, <<>>, idf) IN
          \E pick \in LatestInvoicePicks(ri.invoices) :
              LET rp == import_payments_df(ri.customers, ri.invoices, <<>>, pdf, pick) IN
              /\ customers = rp.customers
              /\ invoices = ri.invoices
              /\ payments = rp.payments
    /\ regions = <<>>
    /\ settings = <<>>
    /\ actions = <<>>
    /\ req = [op |-> "start"]
    /\ resp = [op |-> "start"]
    /\ nops = 0

\* POST /import/invoices, the batch being committed or failing at the commit
import_invoices_atomic == ImportInvoices(AtomicInvoiceRows)

\* POST /import/invoices raising in the loop
import_invoices_raising ==
    /\ nops < MaxOps
    /\ \E df \in SeqsUpTo(AtomicInvoiceRows, MaxBatchLen) :
       \E k \in 0..Len(df) :
          LET r == import_invoices_df_raising(customers, invoices, df, k) IN
          /\ req' = [op |-> "import_invoices", df |-> df]
          /\ customers' = r.customers
          /\ invoices' = r.invoices
          /\ resp' = [op |-> "import_invoices", status |-> 500]
    /\ nops' = nops + 1
    /\ UNCHANGED <<payments, regions, settings, actions>>

\* POST /import/payments raising in the loop
import_payments_raising ==
    /\ nops < MaxOps
    /\ \E pick \in LatestInvoicePicks(invoices) :
       \E df \in SeqsUpTo(AtomicPaymentRows, MaxBatchLen) :
       \E k \in 0..Len(df) :
          LET r == import_payments_df_raising(customers, invoices, payments, df, pick, k) IN
          /\ req' = [op |-> "import_payments", df |-> df]
          /\ customers' = r.customers
          /\ payments' = r.payments
          /\ resp' = [op |-> "import_payments", status |-> 500]
    /\ nops' = nops + 1
    /\ UNCHANGED <<invoices, regions, settings, actions>>

\* POST /import/customer-regions raising in the loop
import_customer_regions_raising ==
    /\ nops < MaxOps
    /\ \E pickc \in CustomerByNamePicks(customers) :
       \E rows \in SeqsUpTo(AtomicRegionRows, MaxBatchLen) :
       \E k \in 0..Len(rows) :
          LET columns == {"Customer Number", "Customer Name", "Region Name"}
              r == import_customer_regions_df_raising(customers, regions,
                       [columns |-> columns, rows |-> rows], pickc, k) IN
          /\ req' = [op |-> "import_customer_regions", columns |-> columns, df |-> rows]
          /\ customers' = r.customers
          /\ regions' = r.regions
          /\ resp' = [op |-> "import_customer_regions", status |-> 500]
    /\ nops' = nops + 1
    /\ UNCHANGED <<invoices, payments, settings, actions>>

NextAtomic ==
    \/ import_invoices_atomic
    \/ import_invoices_raising
    \/ import_payments_raising
    \/ import_customer_regions_raising

SpecAtomic == InitAtomic /\ [][NextAtomic]_vars

-----------------------------------------------------------------------------
(* C24 *)

ImportOps == {"import_invoices", "import_payments", "import_customer_regions"}

\* C24: an import that fails leaves customers, invoices, payments and
\* regions exactly as they were before the call.
C24_ImportsAllOrNothing ==
    [][(req'.op \in ImportOps /\ nops' = nops + 1 /\ resp'.status = 500) => store' = store]_vars

\* a payment import of a batch that names a new customer has failed, and the
\* stored payment is still there
C24_Witness ==
    /\ req.op = "import_payments"
    /\ resp.status = 500
    /\ Len(req.df) >= 1
    /\ req.df[1].customer_no = "C3"
    /\ Len(payments) = 1
    /\ payments[1].customer_no = "C1"
    /\ "C3" \notin DOMAIN customers

-----------------------------------------------------------------------------
(* update_settings step by step, with requests of other threads in between *)

\* In this specification req is the update_settings request being served:
\* `at` is the statement the handler is at, `before` the pair that was stored
\* when the request arrived. The other requests leave req alone and write
\* their response to resp.

SettingsPair(sett) ==
    [cost_of_cash_annual |-> get_cost_of_cash_annual(sett, DefaultCostOfCash),
     late_fee_rate_annual |-> get_late_fee_rate_annual(sett, DefaultLateFeeRate)]

UpdateInFlight == req.op = "update_settings" /\ req.at = "set_late_fee_rate_annual"

\* set_cost_of_cash_annual(db, payload.cost_of_cash_annual), its commit included
update_settings_cost ==
    /\ nops < MaxOps
    /\ ~UpdateInFlight
    /\ \E cost_of_cash_annual \in Rates, late_fee_rate_annual \in Rates :
          /\ req' = [op |-> "update_settings", at |-> "set_late_fee_rate_annual",
                     before |-> SettingsPair(settings),
                     cost_of_cash_annual |-> cost_of_cash_annual,
                     late_fee_rate_annual |-> late_fee_rate_annual]
          /\ settings' = set_cost_of_cash_annual(settings, cost_of_cash_annual)
    /\ nops' = nops + 1
    /\ UNCHANGED <<customers, invoices, payments, regions, actions, resp>>

\* set_late_fee_rate_annual(db, payload.late_fee_rate_annual), its commit
\* included, and the return
update_settings_late_fee ==
    /\ UpdateInFlight
    /\ req' = [req EXCEPT !.at = "return"]
    /\ settings' = set_late_fee_rate_annual(settings, req.late_fee_rate_annual)
    /\ resp' = [op |-> "update_settings", status |-> 200,
                cost_of_cash_annual |-> req.cost_of_cash_annual,
                late_fee_rate_annual |-> req.late_fee_rate_annual]
    /\ UNCHANGED <<customers, invoices, payments, regions, actions, nops>>

\* set_late_fee_rate_annual raises: the first commit stays
update_settings_raises ==
    /\ UpdateInFlight
    /\ req' = [req EXCEPT !.at = "raise"]
    /\ resp' = [op |-> "update_settings", status |-> 500]
    /\ UNCHANGED <<customers, invoices, payments, regions, settings, actions, nops>>

\* GET /settings of another thread
get_settings_concurrent ==
    /\ nops <= MaxOps
    /\ resp' = [op |-> "get_settings", status |-> 200,
                cost_of_cash_annual |-> get_cost_of_cash_annual(settings, DefaultCostOfCash),
                late_fee_rate_annual |-> get_late_fee_rate_annual(settings, DefaultLateFeeRate)]
    /\ nops' = nops + 1
    /\ UNCHANGED <<customers, invoices, payments, regions, settings, actions, req>>

\* GET /dashboard of another thread
dashboard_concurrent ==
    /\ nops <= MaxOps
    /\ \E today \in Todays :
          LET body == dashboard_result(invoices, payments, settings, today) IN
          resp' = [op |-> "dashboard", status |-> 200, today |-> today,
                   cost_of_cash_annual |-> body.cost_of_cash_annual,
                   late_fee_rate_annual |-> body.late_fee_rate_annual]
    /\ nops' = nops + 1
    /\ UNCHANGED <<customers, invoices, payments, regions, settings, actions, req>>

NextSettings ==
    \/ update_settings_cost
    \/ update_settings_late_fee
    \/ update_settings_raises
    \/ get_settings_concurrent
    \/ dashboard_concurrent

SpecSettings == Init /\ [][NextSettings]_vars

-----------------------------------------------------------------------------
(* C25 *)

\* one rate of the request with the other rate as it was before the request
\* (for a request that changes both)
Mixed(pair) ==
    /\ req.cost_of_cash_annual # req.before.cost_of_cash_annual
    /\ req.late_fee_rate_annual # req.before.late_fee_rate_annual
    /\ \/ /\ pair.cost_of_cash_annual = req.cost_of_cash_annual
          /\ pair.late_fee_rate_annual = req.before.late_fee_rate_annual
       \/ /\ pair.cost_of_cash_annual = req.before.cost_of_cash_annual
          /\ pair.late_fee_rate_annual = req.late_fee_rate_annual

\* C25: while and after an update_settings request, no get_settings or
\* dashboard response shows the new cost_of_cash_annual with the old
\* late_fee_rate_annual or the reverse, and a failed update leaves no such
\* pair stored.
C25_SettingsWrittenAsPair ==
    req.op = "update_settings" =>
        /\ resp.op \in {"get_settings", "dashboard"} => ~Mixed(resp)
        /\ req.at = "raise" => ~Mixed(SettingsPair(settings))

-----------------------------------------------------------------------------
(* Two payment imports served at once *)

\* In this specification req holds the two requests being served, A and B.
\* Each has its own session and transaction: `at` is the statement it is at,
\* `seen` the customers its queries read, `unseen` the payments committed by
\* the other transaction after its DELETE took its snapshot, which that
\* DELETE therefore does not remove. Serial execution, which is all a
\* database that admits one writer at a time allows, is among the
\* interleavings; so is a request that gives up waiting and raises.

Requests == {"A", "B"}

ConcurrentImports == req.op = "import_payments_concurrent"

Finished(X) == req[X].at \in {"return", "raise"}

Arrived(df) == [df |-> df, at |-> "delete", seen |-> <<>>, unseen |-> <<>>]

OldPaymentRows ==
    {PayRow("C1", "N1", "I1", Some(40), Some(60), Some(0), Some(1000))}

ConcurrentPaymentRows ==
    {PayRow("C1", "N1", "I1", Some(40), Some(60), Some(0), Some(5000)),
     PayRow("C2", "N2", "I2", Some(40), Some(60), Some(0), Some(3000))}

\* the store after one payment import
InitConcurrent ==
    /\ \E df \in SeqsUpTo(OldPaymentRows, MaxBatchLen) :
          LET r == import_payments_df(<<>>, <<>>, <<>>, df, <<>>) IN
          /\ customers = r.customers
          /\ payments = r.payments
    /\ invoices = <<>>
    /\ regions = <<>>
    /\ settings = <<>>
    /\ actions = <<>>
    /\ req = [op |-> "start"]
    /\ resp = [op |-> "start"]
    /\ nops = 0

\* two POST /import/payments arrive
import_payments_arrive ==
    /\ nops < MaxOps
    /\ ConcurrentImports => \A X \in Requests : Finished(X)
    /\ \E dfA, dfB \in SeqsUpTo(ConcurrentPaymentRows, MaxBatchLen) :
          req' = [op |-> "import_payments_concurrent", A |-> Arrived(dfA), B |-> Arrived(dfB)]
    /\ nops' = nops + 1
    /\ UNCHANGED <<customers, invoices, payments, regions, settings, actions, resp>>

\* db.query(Payment).delete() and the loop, in the session of one request
import_payments_delete ==
    /\ ConcurrentImports
    /\ \E X \in Requests :
          /\ req[X].at = "delete"
          /\ req' = [req EXCEPT ![X].at = "commit", ![X].seen = customers,
                                ![X].unseen = <<>>]
    /\ UNCHANGED <<customers, invoices, payments, regions, settings, actions, resp, nops>>

\* db.commit() of one request: it raises when a customer the session adds
\* has been committed by the other request in the meantime
import_payments_commit ==
    /\ ConcurrentImports
    /\ \E X \in Requests :
       \E pick \in LatestInvoicePicks(invoices) :
          LET Y == CHOOSE Z \in Requests : Z # X
              r == import_payments_df(req[X].seen, invoices, <<>>, req[X].df, pick)
              added == DOMAIN r.customers \ DOMAIN req[X].seen
              written == {c \in DOMAIN r.customers :
                             c \in added \/ r.customers[c] # req[X].seen[c]}
          IN
          /\ req[X].at = "commit"
          /\ IF added \cap DOMAIN customers # {}
             THEN /\ req' = [req EXCEPT ![X].at = "raise"]
                  /\ resp' = [op |-> "import_payments", status |-> 500]
                  /\ UNCHANGED <<customers, payments>>
             ELSE /\ payments' = req[X].unseen \o r.payments
                  /\ customers' = [c \in DOMAIN customers \cup written |->
                                      IF c \in written THEN r.customers[c] ELSE customers[c]]
                  /\ req' = [req EXCEPT ![X].at = "return",
                                        ![Y].unseen = IF req[Y].at = "commit"
                                                      THEN @ \o r.payments ELSE @]
                  /\ resp' = [op |-> "import_payments", status |-> 200,
                              rows |-> Len(req[X].df), inserted |-> r.ret]
    /\ UNCHANGED <<invoices, regions, settings, actions, nops>>

\* one request raises before its commit
import_payments_raise ==
    /\ ConcurrentImports
    /\ \E X \in Requests :
          /\ req[X].at \in {"delete", "commit"}
          /\ req' = [req EXCEPT ![X].at = "raise"]
    /\ resp' = [op |-> "import_payments", status |-> 500]
    /\ UNCHANGED <<customers, invoices, payments, regions, settings, actions, nops>>

NextConcurrent ==
    \/ import_payments_arrive
    \/ import_payments_delete
    \/ import_payments_commit
    \/ import_payments_raise

SpecConcurrent == InitConcurrent /\ [][NextConcurrent]_vars

-----------------------------------------------------------------------------
(* C26 *)

\* the payment table is the rows of df that have a customer identifier
Holds(df) ==
    LET valid == ValidPaymentRows(df) IN
    /\ Len(payments) = Len(valid)
    /\ \A n \in 1..Len(valid) :
          /\ payments[n].customer_no = TextOf(valid[n].customer_no)
          /\ payments[n].applied_amount = valid[n].applied_amount

\* C26: once two concurrent payment imports have both finished, the payment
\* table is exactly the valid rows of one of the two batches (of the one
\* that did not fail, if one failed): no mixture, no union, nothing from
\* before the imports.
C26_ReplaceAllUnderConcurrency ==
    (ConcurrentImports /\ \A X \in Requests : Finished(X)) =>
        /\ (req.A.at = "return" /\ req.B.at = "return") => (Holds(req.A.df) \/ Holds(req.B.df))
        /\ (req.A.at = "return" /\ req.B.at = "raise") => Holds(req.A.df)
        /\ (req.A.at = "raise" /\ req.B.at = "return") => Holds(req.B.df)

-----------------------------------------------------------------------------
(* C27 *)

\* C27: every entry of a customer's late-payments listing is a stored
\* payment with delay_days > 0, and every stored payment of that customer
\* with delay_days > 0 is listed.
C27_OnlyLatePaymentsListed ==
    (resp.op = "customer_late_payments" /\ resp.status = 200) =>
        /\ \A e \in resp.body :
              /\ e.payment_id \in 1..Len(payments)
              /\ payments[e.payment_id].delay_days = e.delay_days
              /\ e.delay_days > 0
        /\ \A n \in 1..Len(payments) :
              (payments[n].customer_no = resp.customer_no /\ payments[n].delay_days > 0) =>
                  \E e \in resp.body : e.payment_id = n

-----------------------------------------------------------------------------
(* C28 *)

\* the figures of the customer summaries of all stored customers
SummaryOf(c, today) ==
    _customer_metrics(customers, invoices, payments, settings, c,
        get_cost_of_cash_annual(settings, DefaultCostOfCash), today)

\* C28: the total_late_loss of the customer summaries of all stored customers
\* add up to the dashboard's total_late_loss, and their loss_30d to the
\* dashboard's loss_30d: each payment's loss is counted for exactly one
\* customer.
C28_EveryPaymentCountedOnce ==
    (resp.op = "dashboard" /\ resp.status = 200) =>
        LET all == DOMAIN customers IN
        /\ SumOver([c \in all |-> SummaryOf(c, resp.today).total_late_loss], all)
              = resp.body.total_late_loss
        /\ SumOver([c \in all |-> SummaryOf(c, resp.today).loss_30d], all)
              = resp.body.loss_30d

=============================================================================
